---------------------------- MODULE Spec2Model ----------------------------
(***************************************************************************)
(* A model of the Cactus parameter file parser (ParParser) and of the grid *)
(* hierarchy (CactusGrid) it sets up.                                      *)
(*                                                                         *)
(* Text is modelled as sequences of one-character strings, so that case    *)
(* folding, quote removal, trimming and the scanning of numbers are        *)
(* computed and not assumed.  CCTK_REAL values are exact fractions         *)
(* [n, d] with d > 0; d = 0 encodes the IEEE results of a division by      *)
(* zero: [1,0] is +inf, [-1,0] is -inf and [0,0] is NaN.  Rounding of      *)
(* doubles and the sign of zero are not modelled.                          *)
(***************************************************************************)
EXTENDS Integers, Sequences, FiniteSets, TLC

-----------------------------------------------------------------------------
(* Characters and strings                                                  *)

UpperChars == <<"A","B","C","D","E","F","G","H","I","J","K","L","M","N","O","P","Q","R","S","T","U","V","W","X","Y","Z">>
LowerChars == <<"a","b","c","d","e","f","g","h","i","j","k","l","m","n","o","p","q","r","s","t","u","v","w","x","y","z">>
DigitChars == <<"0","1","2","3","4","5","6","7","8","9">>

UpperSet == {UpperChars[i] : i \in 1..26}
LowerSet == {LowerChars[i] : i \in 1..26}
DigitSet == {DigitChars[i] : i \in 1..10}

isupper(c) == c \in UpperSet
islower(c) == c \in LowerSet
isdigit(c) == c \in DigitSet
digitValue(c) == (CHOOSE i \in 1..10 : DigitChars[i] = c) - 1

\* std::isspace / regex \s on the characters a line can hold (no line breaks)
isspace(c) == c \in {" ", "\t"}

\* regex \w
isword(c) == isupper(c) \/ islower(c) \/ isdigit(c) \/ c = "_"

LowerOf == [c \in UpperSet |-> LowerChars[CHOOSE i \in 1..26 : UpperChars[i] = c]]
UpperOf == [c \in LowerSet |-> UpperChars[CHOOSE i \in 1..26 : LowerChars[i] = c]]

tolower(c) == IF isupper(c) THEN LowerOf[c] ELSE c
toupper(c) == IF islower(c) THEN UpperOf[c] ELSE c

to_lower_copy(s) == [i \in 1..Len(s) |-> tolower(s[i])]
to_upper_copy(s) == [i \in 1..Len(s) |-> toupper(s[i])]

\* boost::iequals
equals(str1, str2) ==
    /\ Len(str1) = Len(str2)
    /\ \A i \in 1..Len(str1) : toupper(str1[i]) = toupper(str2[i])

\* boost::algorithm::erase_all(s, "\"")
RECURSIVE erase_all(_, _)
erase_all(s, ch) ==
    IF s = <<>> THEN <<>>
    ELSE IF Head(s) = ch THEN erase_all(Tail(s), ch)
    ELSE <<Head(s)>> \o erase_all(Tail(s), ch)

RECURSIVE trim_left(_)
trim_left(s) == IF s # <<>> /\ isspace(Head(s)) THEN trim_left(Tail(s)) ELSE s

RECURSIVE trim_right(_)
trim_right(s) ==
    IF s # <<>> /\ isspace(s[Len(s)]) THEN trim_right(SubSeq(s, 1, Len(s) - 1)) ELSE s

\* boost::algorithm::trim
trim(s) == trim_right(trim_left(s))

\* first index >= i of s that holds no white space (Len(s)+1 if none)
RECURSIVE SkipSpace(_, _)
SkipSpace(s, i) == IF i <= Len(s) /\ isspace(s[i]) THEN SkipSpace(s, i + 1) ELSE i

\* first index >= i of s that holds no word character (Len(s)+1 if none)
RECURSIVE SkipWord(_, _)
SkipWord(s, i) == IF i <= Len(s) /\ isword(s[i]) THEN SkipWord(s, i + 1) ELSE i

\* first index >= i of s that holds white space (Len(s)+1 if none)
RECURSIVE SkipToken(_, _)
SkipToken(s, i) == IF i <= Len(s) /\ ~isspace(s[i]) THEN SkipToken(s, i + 1) ELSE i

\* first index >= i of s that holds no digit (Len(s)+1 if none)
RECURSIVE SkipDigits(_, _)
SkipDigits(s, i) == IF i <= Len(s) /\ isdigit(s[i]) THEN SkipDigits(s, i + 1) ELSE i

str_ActiveThorns == <<"A","c","t","i","v","e","T","h","o","r","n","s">>  \* 'ActiveThorns'
str_yes == <<"y","e","s">>  \* 'yes'
str_y == <<"y">>  \* 'y'
str_true == <<"t","r","u","e">>  \* 'true'
str_t == <<"t">>  \* 't'
str_no == <<"n","o">>  \* 'no'
str_n == <<"n">>  \* 'n'
str_false == <<"f","a","l","s","e">>  \* 'false'
str_f == <<"f">>  \* 'f'
str_1 == <<"1">>  \* '1'
str_0 == <<"0">>  \* '0'

-----------------------------------------------------------------------------
(* ParParser::parseLine: the three regular expressions                     *)

\* ^\s*(#|!)
regex_comment(line) ==
    LET a == SkipSpace(line, 1)
    IN  a <= Len(line) /\ line[a] \in {"#", "!"}

\* ^\s*$
regex_empty(line) == SkipSpace(line, 1) > Len(line)

\* ^\s*(\w+::\w+|ActiveThorns)\s*=\s*(.*)$ , case-insensitive.  The result
\* is [matched, implname (token 1), value (token 2)].
regex_parameter(line) ==
    LET none == [matched |-> FALSE, implname |-> <<>>, value |-> <<>>]
        \* \s*=\s*(.*)$ after the name line[a..e-1], the "=" looked for at p
        assignment(a, e, p) ==
            IF p <= Len(line) /\ line[p] = "="
            THEN [matched  |-> TRUE,
                  implname |-> SubSeq(line, a, e - 1),
                  value    |-> SubSeq(line, SkipSpace(line, p + 1), Len(line))]
            ELSE none
        named(a, e) == assignment(a, e, SkipSpace(line, e))
        \* first alternative, \w+::\w+ : words line[a..b-1] and line[b+2..d-1]
        alt1(a, b, d) ==
            /\ b > a
            /\ b + 2 <= Len(line)
            /\ line[b] = ":" /\ line[b + 1] = ":"
            /\ d > b + 2
        \* second alternative, the keyword, line[a..k-1]
        alt2(a, k) ==
            /\ k - 1 <= Len(line)
            /\ equals(SubSeq(line, a, k - 1), str_ActiveThorns)
        either(a, b, d, k) ==
            IF alt1(a, b, d) /\ named(a, d).matched THEN named(a, d)
            ELSE IF alt2(a, k) THEN named(a, k)
            ELSE none
        words(a, b) == either(a, b, SkipWord(line, b + 2), a + Len(str_ActiveThorns))
        start(a) == words(a, SkipWord(line, a))
    IN  start(SkipSpace(line, 1))

\* what parseLine does with a line: "comment", "empty", "parameter" or "error"
\* variant: a line that matches nothing is passed over like a blank line
LineKind_lenient(line) ==
    IF regex_comment(line) THEN "comment"
    ELSE IF regex_parameter(line).matched THEN "parameter"
    ELSE "empty"

LineKind(line) ==
    IF regex_comment(line) THEN "comment"
    ELSE IF regex_empty(line) THEN "empty"
    ELSE IF regex_parameter(line).matched THEN "parameter"
    ELSE "error"

\* m_parMap[implname] = value
MapPut(map, key, value) ==
    [k \in DOMAIN map \cup {key} |-> IF k = key THEN value ELSE map[k]]

\* variant: the key is stored as it is written, without boost::to_lower
parseLineStore_keepCase(map, line) ==
    LET store(tok) == MapPut(map, tok.implname, tok.value)
    IN  IF ~regex_comment(line) /\ ~regex_empty(line) /\ regex_parameter(line).matched
        THEN store(regex_parameter(line)) ELSE map

\* the store after parseLine(line), for a line that does not throw
parseLineStore(map, line) ==
    LET store(tok) == MapPut(map, to_lower_copy(tok.implname), tok.value)
    IN  IF LineKind(line) = "parameter" THEN store(regex_parameter(line)) ELSE map

-----------------------------------------------------------------------------
(* ParParser::prepareValues                                                *)

\* variant: quotes are erased but the value is not trimmed
prepareValue_noTrim(v) ==
    LET no(b) ==
            IF equals(b, str_no) \/ equals(b, str_n) \/
               equals(b, str_false) \/ equals(b, str_f)
            THEN str_0 ELSE b
        yes(s) ==
            no(IF equals(s, str_yes) \/ equals(s, str_y) \/
                  equals(s, str_true) \/ equals(s, str_t)
               THEN str_1 ELSE s)
    IN  yes(erase_all(v, "\""))

prepareValue(v) ==
    LET no(b) ==
            IF equals(b, str_no) \/ equals(b, str_n) \/
               equals(b, str_false) \/ equals(b, str_f)
            THEN str_0 ELSE b
        yes(s) ==
            no(IF equals(s, str_yes) \/ equals(s, str_y) \/
                  equals(s, str_true) \/ equals(s, str_t)
               THEN str_1 ELSE s)
    IN  yes(trim(erase_all(v, "\"")))

prepareValuesStore(map) == [k \in DOMAIN map |-> prepareValue(map[k])]

-----------------------------------------------------------------------------
(* CCTK_REAL arithmetic                                                    *)

RECURSIVE GCD(_, _)
GCD(a, b) == IF b = 0 THEN a ELSE GCD(b, a % b)

Abs(x) == IF x < 0 THEN -x ELSE x
Sign(x) == IF x < 0 THEN -1 ELSE IF x > 0 THEN 1 ELSE 0

\* the fraction n/d in lowest terms with d > 0; n/0 is an infinity or NaN
Frac(n, d) ==
    IF d = 0 THEN [n |-> Sign(n), d |-> 0]
    ELSE LET g == GCD(Abs(n), Abs(d))
         IN  [n |-> (Sign(d) * n) \div g, d |-> Abs(d) \div g]

FromInt(i) == [n |-> i, d |-> 1]
NaN == [n |-> 0, d |-> 0]
IsNaN(a) == a.d = 0 /\ a.n = 0
IsInf(a) == a.d = 0 /\ a.n # 0

RNeg(a) == [n |-> -a.n, d |-> a.d]

RMul(a, b) == Frac(a.n * b.n, a.d * b.d)

\* a / b, with x/0 = +-inf, 0/0 = NaN, x/inf = 0, inf/inf = NaN
RDiv(a, b) ==
    IF b.n < 0 THEN Frac(-(a.n * b.d), a.d * (-b.n))
    ELSE Frac(a.n * b.d, a.d * b.n)

\* a - b, with inf - inf = NaN
RSub(a, b) ==
    IF IsNaN(a) \/ IsNaN(b) THEN NaN
    ELSE IF IsInf(a) THEN (IF b = a THEN NaN ELSE a)
    ELSE IF IsInf(b) THEN RNeg(b)
    ELSE Frac(a.n * b.d - b.n * a.d, a.d * b.d)

\* a < b; false when either is NaN
RLt(a, b) ==
    IF IsNaN(a) \/ IsNaN(b) THEN FALSE
    ELSE IF IsInf(a) /\ IsInf(b) THEN a.n < b.n
    ELSE IF IsInf(a) THEN a.n < 0
    ELSE IF IsInf(b) THEN b.n > 0
    ELSE a.n * b.d < b.n * a.d

\* a != b; true when either is NaN
RNe(a, b) == IsNaN(a) \/ IsNaN(b) \/ a # b

\* C++ a % b for b > 0: the remainder has the sign of a
CRem(a, b) == IF a >= 0 THEN a % b ELSE -((-a) % b)

\* sqrt(dim) as a double, by its continued-fraction convergent
sqrt(x) ==
    CASE x = 1 -> FromInt(1)
      [] x = 2 -> Frac(99, 70)
      [] x = 3 -> Frac(97, 56)
      [] x = 4 -> FromInt(2)

-----------------------------------------------------------------------------
(* ParParser::fromString<T>: formatted extraction, skipping leading white  *)
(* space and stopping at the first character that does not belong to the   *)
(* value.  Each result is [fail, val].                                     *)

INT_MAX == 2147483647

\* the digits s[i..j-1] as a number, or -1 when it exceeds INT_MAX
RECURSIVE ScanDigits(_, _, _, _)
ScanDigits(s, i, j, acc) ==
    IF i >= j THEN acc
    ELSE LET v == digitValue(s[i])
         IN  IF acc > (INT_MAX - v) \div 10 THEN -1
             ELSE ScanDigits(s, i + 1, j, acc * 10 + v)

\* 10^k
RECURSIVE Pow10(_)
Pow10(k) == IF k = 0 THEN 1 ELSE 10 * Pow10(k - 1)

fromString_int(s) ==
    LET \* the sign, if any, at a; the digits at b..c-1
        number(a, b, c, mag) ==
            IF c = b \/ mag < 0 THEN [fail |-> TRUE, val |-> 0]
            ELSE [fail |-> FALSE, val |-> IF b > a /\ s[a] = "-" THEN -mag ELSE mag]
        digits(a, b, c) == number(a, b, c, ScanDigits(s, b, c, 0))
        sign(a, b) == digits(a, b, SkipDigits(s, b))
        start(a) == sign(a, IF a <= Len(s) /\ s[a] \in {"+", "-"} THEN a + 1 ELSE a)
    IN  start(SkipSpace(s, 1))

\* unsigned int, kept as [hi, lo] with value hi * 65536 + lo (TLC numbers
\* are 32-bit signed); a leading minus sign negates modulo 2^32
RECURSIVE ScanUnsigned(_, _, _, _)
ScanUnsigned(s, i, j, acc) ==
    IF i >= j \/ acc.fail THEN acc
    ELSE LET x  == acc.lo * 10 + digitValue(s[i])
             hi == acc.hi * 10 + x \div 65536
         IN  IF hi >= 65536 THEN [fail |-> TRUE, hi |-> 0, lo |-> 0]
             ELSE ScanUnsigned(s, i + 1, j, [fail |-> FALSE, hi |-> hi, lo |-> x % 65536])

fromString_unsigned(s) ==
    LET neg(m) ==
            IF m.lo = 0
            THEN [hi |-> (65536 - m.hi) % 65536, lo |-> 0]
            ELSE [hi |-> 65535 - m.hi, lo |-> 65536 - m.lo]
        \* the sign, if any, at a; the digits at b..c-1, of value m
        number(a, b, c, m) ==
            IF c = b \/ m.fail THEN [fail |-> TRUE, val |-> [hi |-> 0, lo |-> 0]]
            ELSE [fail |-> FALSE,
                  val  |-> IF b > a /\ s[a] = "-" THEN neg(m) ELSE [hi |-> m.hi, lo |-> m.lo]]
        digits(a, b, c) ==
            number(a, b, c, ScanUnsigned(s, b, c, [fail |-> FALSE, hi |-> 0, lo |-> 0]))
        sign(a, b) == digits(a, b, SkipDigits(s, b))
        start(a) == sign(a, IF a <= Len(s) /\ s[a] \in {"+", "-"} THEN a + 1 ELSE a)
    IN  start(SkipSpace(s, 1))

\* CCTK_REAL in decimal notation: [sign] digits [. digits], at least one
\* digit and at most nine; exponents are not scanned (no modelled value
\* has one)
fromString_real(s) ==
    LET signed(a, b, mag) == IF b > a /\ s[a] = "-" THEN RNeg(mag) ELSE mag
        \* the sign, if any, at a; the digits at b..c-1 and, after a point,
        \* at e..f-1
        number(a, b, c, e, f) ==
            IF (c - b) + (f - e) = 0 THEN [fail |-> TRUE, val |-> FromInt(0)]
            ELSE [fail |-> FALSE,
                  val  |-> signed(a, b, Frac(ScanDigits(s, b, c, 0) * Pow10(f - e)
                                                + ScanDigits(s, e, f, 0),
                                             Pow10(f - e)))]
        fraction(a, b, c, e) == number(a, b, c, e, IF e > c THEN SkipDigits(s, e) ELSE c)
        point(a, b, c) == fraction(a, b, c, IF c <= Len(s) /\ s[c] = "." THEN c + 1 ELSE c)
        sign(a, b) == point(a, b, SkipDigits(s, b))
        start(a) == sign(a, IF a <= Len(s) /\ s[a] \in {"+", "-"} THEN a + 1 ELSE a)
    IN  start(SkipSpace(s, 1))

\* bool without boolalpha: the number 0 or 1, anything else fails
fromString_bool(s) ==
    LET bool(r) ==
            IF r.fail \/ r.val \notin {0, 1} THEN [fail |-> TRUE, val |-> FALSE]
            ELSE [fail |-> FALSE, val |-> r.val = 1]
    IN  bool(fromString_int(s))

\* std::string: the first white-space delimited word; fails when there is none
fromString_string(s) ==
    LET word(a, b) ==
            IF b = a THEN [fail |-> TRUE, val |-> <<>>]
            ELSE [fail |-> FALSE, val |-> SubSeq(s, a, b - 1)]
        start(a) == word(a, SkipToken(s, a))
    IN  start(SkipSpace(s, 1))

fromString(type, s) ==
    CASE type = "int"         -> fromString_int(s)
      [] type = "unsigned"    -> fromString_unsigned(s)
      [] type = "CCTK_REAL"   -> fromString_real(s)
      [] type = "bool"        -> fromString_bool(s)
      [] type = "std::string" -> fromString_string(s)

-----------------------------------------------------------------------------
(* ParParser::exists, ParParser::getString and the GET macro               *)

exists(map, key) == to_lower_copy(key) \in DOMAIN map

\* only called under exists(key)
getString(map, key) == map[to_lower_copy(key)]

\* toSet = value, for a GET(name, type, toSet) given as
\* [name, type, field, index] (index -1: the field is no array)
Assign(w, g, value) ==
    IF g.index < 0 THEN [w EXCEPT ![g.field] = value]
    ELSE [w EXCEPT ![g.field][g.index] = value]

\* A run of GET macros in program order on the working state w.  The first
\* conversion that fails throws: [fail, text (the string that did not
\* convert), w (the assignments made before the throw)].
RECURSIVE GetRun(_, _, _)
GetRun(gets, map, st) ==
    LET converted(g, r) ==
            IF r.fail
            THEN [fail |-> TRUE, text |-> getString(map, g.name), w |-> st.w]
            ELSE GetRun(Tail(gets), map, [st EXCEPT !.w = Assign(st.w, g, r.val)])
        get(g) ==
            IF ~exists(map, g.name) THEN GetRun(Tail(gets), map, st)
            ELSE converted(g, fromString(g.type, getString(map, g.name)))
    IN  IF gets = <<>> \/ st.fail THEN st ELSE get(Head(gets))

GET(gets, map, w) == GetRun(gets, map, [fail |-> FALSE, text |-> <<>>, w |-> w])

Get(name, type, field, index) ==
    [name |-> name, type |-> type, field |-> field, index |-> index]

-----------------------------------------------------------------------------
(* Parameter names (the keys the GET macros stringify) and keyword values  *)

cactus_cctk_itlast == <<"c","a","c","t","u","s",":",":","c","c","t","k","_","i","t","l","a","s","t">>  \* 'cactus::cctk_itlast'
driver_global_nsize == <<"d","r","i","v","e","r",":",":","g","l","o","b","a","l","_","n","s","i","z","e">>  \* 'driver::global_nsize'
driver_global_nx == <<"d","r","i","v","e","r",":",":","g","l","o","b","a","l","_","n","x">>  \* 'driver::global_nx'
driver_global_ny == <<"d","r","i","v","e","r",":",":","g","l","o","b","a","l","_","n","y">>  \* 'driver::global_ny'
driver_global_nz == <<"d","r","i","v","e","r",":",":","g","l","o","b","a","l","_","n","z">>  \* 'driver::global_nz'
driver_local_nsize == <<"d","r","i","v","e","r",":",":","l","o","c","a","l","_","n","s","i","z","e">>  \* 'driver::local_nsize'
driver_local_nx == <<"d","r","i","v","e","r",":",":","l","o","c","a","l","_","n","x">>  \* 'driver::local_nx'
driver_local_ny == <<"d","r","i","v","e","r",":",":","l","o","c","a","l","_","n","y">>  \* 'driver::local_ny'
driver_local_nz == <<"d","r","i","v","e","r",":",":","l","o","c","a","l","_","n","z">>  \* 'driver::local_nz'
grid_type == <<"g","r","i","d",":",":","t","y","p","e">>  \* 'grid::type'
grid_domain == <<"g","r","i","d",":",":","d","o","m","a","i","n">>  \* 'grid::domain'
grid_avoid_origin == <<"g","r","i","d",":",":","a","v","o","i","d","_","o","r","i","g","i","n">>  \* 'grid::avoid_origin'
grid_avoid_originx == <<"g","r","i","d",":",":","a","v","o","i","d","_","o","r","i","g","i","n","x">>  \* 'grid::avoid_originx'
grid_avoid_originy == <<"g","r","i","d",":",":","a","v","o","i","d","_","o","r","i","g","i","n","y">>  \* 'grid::avoid_originy'
grid_avoid_originz == <<"g","r","i","d",":",":","a","v","o","i","d","_","o","r","i","g","i","n","z">>  \* 'grid::avoid_originz'
grid_xyzmax == <<"g","r","i","d",":",":","x","y","z","m","a","x">>  \* 'grid::xyzmax'
grid_xyzmin == <<"g","r","i","d",":",":","x","y","z","m","i","n">>  \* 'grid::xyzmin'
grid_xmax == <<"g","r","i","d",":",":","x","m","a","x">>  \* 'grid::xmax'
grid_ymax == <<"g","r","i","d",":",":","y","m","a","x">>  \* 'grid::ymax'
grid_zmax == <<"g","r","i","d",":",":","z","m","a","x">>  \* 'grid::zmax'
grid_xmin == <<"g","r","i","d",":",":","x","m","i","n">>  \* 'grid::xmin'
grid_ymin == <<"g","r","i","d",":",":","y","m","i","n">>  \* 'grid::ymin'
grid_zmin == <<"g","r","i","d",":",":","z","m","i","n">>  \* 'grid::zmin'
grid_dxyz == <<"g","r","i","d",":",":","d","x","y","z">>  \* 'grid::dxyz'
grid_dx == <<"g","r","i","d",":",":","d","x">>  \* 'grid::dx'
grid_dy == <<"g","r","i","d",":",":","d","y">>  \* 'grid::dy'
grid_dz == <<"g","r","i","d",":",":","d","z">>  \* 'grid::dz'
time_timestep_method == <<"t","i","m","e",":",":","t","i","m","e","s","t","e","p","_","m","e","t","h","o","d">>  \* 'time::timestep_method'
time_dtfac == <<"t","i","m","e",":",":","d","t","f","a","c">>  \* 'time::dtfac'
time_courant_fac == <<"t","i","m","e",":",":","c","o","u","r","a","n","t","_","f","a","c">>  \* 'time::courant_fac'
timestep == <<"t","i","m","e","s","t","e","p">>  \* 'timestep'

str_box == <<"b","o","x">>  \* 'box'
str_byrange == <<"b","y","r","a","n","g","e">>  \* 'byrange'
str_byspacing == <<"b","y","s","p","a","c","i","n","g">>  \* 'byspacing'
str_full == <<"f","u","l","l">>  \* 'full'
str_bitant == <<"b","i","t","a","n","t">>  \* 'bitant'
str_quadrant == <<"q","u","a","d","r","a","n","t">>  \* 'quadrant'
str_octant == <<"o","c","t","a","n","t">>  \* 'octant'
str_given == <<"g","i","v","e","n">>  \* 'given'
str_courant_static == <<"c","o","u","r","a","n","t","_","s","t","a","t","i","c">>  \* 'courant_static'
str_courant_speed == <<"c","o","u","r","a","n","t","_","s","p","e","e","d">>  \* 'courant_speed'
str_courant_time == <<"c","o","u","r","a","n","t","_","t","i","m","e">>  \* 'courant_time'

\* the value that stands for "not set" in m_xyzmax and m_xyzmin
Sentinel == -424242

-----------------------------------------------------------------------------
(* CactusGrid                                                              *)

\* the dimensions a grid hierarchy is built for (CCTKGHDIM)
Dims == {2, 3, 4}

Axes(dim) == 0 .. dim - 1

\* the names of the per-axis arrays of a grid
AxisFields == {"cctk_gsh", "cctk_lsh", "cctk_lbnd", "cctk_ubnd", "cctk_delta_space",
               "cctk_origin_space", "cctk_levfac", "cctk_levoff", "cctk_levoffdenom",
               "cctk_nghostzones"}

\* CactusGrid(dim): the arrays are allocated and nothing is initialized.
\* indet holds the <<field, index>> places (index 0 for a scalar) whose
\* value is indeterminate; the value kept there is a placeholder that no
\* operation of the model reads.
CactusGrid(dim) ==
    [m_cctk_dim          |-> dim,
     m_cctk_iteration    |-> 0,
     m_cctk_gsh          |-> [i \in Axes(dim) |-> 0],
     m_cctk_lsh          |-> [i \in Axes(dim) |-> 0],
     m_cctk_lbnd         |-> [i \in Axes(dim) |-> 0],
     m_cctk_ubnd         |-> [i \in Axes(dim) |-> 0],
     m_cctk_delta_time   |-> FromInt(0),
     m_cctk_delta_space  |-> [i \in Axes(dim) |-> FromInt(0)],
     m_cctk_origin_space |-> [i \in Axes(dim) |-> FromInt(0)],
     m_cctk_bbox         |-> [i \in 0 .. 2 * dim - 1 |-> 0],
     m_cctk_levfac       |-> [i \in Axes(dim) |-> 0],
     m_cctk_levoff       |-> [i \in Axes(dim) |-> 0],
     m_cctk_levoffdenom  |-> [i \in Axes(dim) |-> 0],
     m_cctk_nghostzones  |-> [i \in Axes(dim) |-> 0],
     m_cctk_time         |-> FromInt(0),
     m_identity          |-> <<>>,
     indet               |-> (AxisFields \X Axes(dim))
                             \cup ({"cctk_bbox"} \X (0 .. 2 * dim - 1))
                             \cup ({"cctk_iteration", "cctk_delta_time", "cctk_time"} \X {0})]

\* the uniform setters cctk_levfac(nsize), cctk_origin_space(nsize), ...:
\* every element below the dimension is set
SetAll(gh, field, name, value) ==
    [gh EXCEPT ![field] = [i \in DOMAIN gh[field] |->
                              IF i < gh.m_cctk_dim THEN value ELSE gh[field][i]],
               !.indet  = @ \ {<<name, i>> : i \in Axes(gh.m_cctk_dim)}]

\* a scalar setter: cctk_iteration(v), cctk_time(v), cctk_delta_time(v)
SetScalar(gh, field, name, value) ==
    [gh EXCEPT ![field] = value, !.indet = @ \ {<<name, 0>>}]

\* cctk_gsh()[i] = v and the like, for every index of the function vals
SetElems(gh, field, name, vals) ==
    [gh EXCEPT ![field] = [i \in DOMAIN gh[field] |->
                              IF i \in DOMAIN vals THEN vals[i] ELSE gh[field][i]],
               !.indet  = @ \ {<<name, i>> : i \in DOMAIN vals}]

\* CactusGrid::min_cctk_delta_space: the loop from index i on
RECURSIVE MinLoop(_, _, _)
MinLoop(gh, i, min) ==
    IF i >= gh.m_cctk_dim THEN min
    ELSE MinLoop(gh, i + 1,
                 IF RLt(gh.m_cctk_delta_space[i], min) THEN gh.m_cctk_delta_space[i] ELSE min)

\* variant: the spacing of axis 0, without the loop over the other axes
min_cctk_delta_space_first(gh) == gh.m_cctk_delta_space[0]

min_cctk_delta_space(gh) == MinLoop(gh, 1, gh.m_cctk_delta_space[0])

-----------------------------------------------------------------------------
(* CactusGrid: allocation, copies and the change of dimension.  The arrays *)
(* of a grid are functions on 0 .. n-1 for the n elements allocated, which *)
(* may be more than the dimension asks for after the dimension has shrunk. *)

\* the member that holds each array
Member ==
    [cctk_gsh          |-> "m_cctk_gsh",          cctk_lsh          |-> "m_cctk_lsh",
     cctk_lbnd         |-> "m_cctk_lbnd",         cctk_ubnd         |-> "m_cctk_ubnd",
     cctk_delta_space  |-> "m_cctk_delta_space",  cctk_origin_space |-> "m_cctk_origin_space",
     cctk_bbox         |-> "m_cctk_bbox",         cctk_levfac       |-> "m_cctk_levfac",
     cctk_levoff       |-> "m_cctk_levoff",       cctk_levoffdenom  |-> "m_cctk_levoffdenom",
     cctk_nghostzones  |-> "m_cctk_nghostzones"]

\* the members copyData copies outside its loops
ScalarMember ==
    [cctk_iteration  |-> "m_cctk_iteration", cctk_delta_time |-> "m_cctk_delta_time",
     cctk_time       |-> "m_cctk_time"]

\* allocateMemory(dim) on the grid gh: every array is new and holds nothing
\* yet; m_cctk_dim and the scalars are not touched
allocateMemory(gh, dim) ==
    [f \in DOMAIN gh |->
        IF f = "indet"
        THEN {p \in gh.indet : p[1] \notin DOMAIN Member}
             \cup {p \in CactusGrid(dim).indet : p[1] \in DOMAIN Member}
        ELSE IF \E n \in DOMAIN Member : Member[n] = f THEN CactusGrid(dim)[f]
        ELSE gh[f]]

\* the indices the second loop of copyData runs over, i < 2 * m_cctk_dim + 1
bboxIndices(dim) == 0 .. 2 * dim

\* the places copyData(rhs) assigns in the grid of dimension dim
copyPlaces(dim) ==
    (AxisFields \X Axes(dim)) \cup ({"cctk_bbox"} \X bboxIndices(dim))
        \cup ((DOMAIN ScalarMember) \X {0})

\* copyData(rhs) on the grid gh.  An element read beyond the end of an
\* array of rhs is an indeterminate value; an element written beyond the
\* end of an array of gh changes no array of gh.
copyData(gh, rhs) ==
    LET inRhs(p) == p[1] \in DOMAIN ScalarMember \/ p[2] \in DOMAIN rhs[Member[p[1]]]
        inGh(p)  == p[1] \in DOMAIN ScalarMember \/ p[2] \in DOMAIN gh[Member[p[1]]]
        copied(n, i) == <<n, i>> \in copyPlaces(gh.m_cctk_dim)
        array(n) ==
            [i \in DOMAIN gh[Member[n]] |->
                IF ~copied(n, i) THEN gh[Member[n]][i]
                ELSE IF i \in DOMAIN rhs[Member[n]] THEN rhs[Member[n]][i]
                ELSE 0]
    IN  [f \in DOMAIN gh |->
            IF f = "indet"
            THEN {p \in gh.indet : p \notin copyPlaces(gh.m_cctk_dim)}
                 \cup {p \in copyPlaces(gh.m_cctk_dim) :
                          inGh(p) /\ (p \in rhs.indet \/ ~inRhs(p))}
            ELSE IF f = "m_identity" THEN rhs.m_identity
            ELSE IF \E n \in DOMAIN ScalarMember : ScalarMember[n] = f THEN rhs[f]
            ELSE IF \E n \in DOMAIN Member : Member[n] = f
            THEN array(CHOOSE n \in DOMAIN Member : Member[n] = f)
            ELSE gh[f]]

\* operator=(rhs) for this # &rhs
operator_assign(gh, rhs) ==
    IF gh.m_cctk_dim # rhs.m_cctk_dim
    THEN copyData([allocateMemory(gh, rhs.m_cctk_dim) EXCEPT !.m_cctk_dim = rhs.m_cctk_dim],
                  rhs)
    ELSE copyData(gh, rhs)

\* CactusGrid(const CactusGrid& other), "*this = other" on members that no
\* constructor has set, when it completes: the members are unequal to
\* other's dimension and freeMemory() finds nothing to free
CactusGrid_copy(other) == copyData(CactusGrid(other.m_cctk_dim), other)

\* cctk_dim(cctk_dim), when the copy "CactusGrid old = *this" completes
cctk_dim(gh, dim) ==
    IF gh.m_cctk_dim >= dim THEN [gh EXCEPT !.m_cctk_dim = dim]
    ELSE [copyData(allocateMemory(gh, dim), CactusGrid_copy(gh)) EXCEPT !.m_cctk_dim = dim]

-----------------------------------------------------------------------------
(* ParParser: defaults                                                     *)

\* initCctkDefaults.  Boundary flags: cctk_bbox(0) sets the flags of every
\* face.
initCctkDefaults(gh) ==
    LET g1 == SetScalar(gh, "m_cctk_iteration", "cctk_iteration", 0)
        g2 == SetScalar(g1, "m_cctk_time", "cctk_time", FromInt(0))
        g3 == SetAll(g2, "m_cctk_levfac", "cctk_levfac", 1)
        g4 == SetAll(g3, "m_cctk_levoff", "cctk_levoff", 0)
        g5 == SetAll(g4, "m_cctk_levoffdenom", "cctk_levoffdenom", 1)
        g6 == [g5 EXCEPT !.m_cctk_bbox = [i \in DOMAIN @ |-> 0],
                         !.indet = @ \ ({"cctk_bbox"} \X DOMAIN g5.m_cctk_bbox)]
    IN  SetAll(g6, "m_cctk_nghostzones", "cctk_nghostzones", 1)

\* initThornDefaults: the working state of the resolver
initThornDefaults ==
    [m_globalNSize      |-> -1,
     m_global           |-> [i \in 0..2 |-> 10],
     m_localNSize       |-> -1,
     m_local            |-> [i \in 0..2 |-> -1],
     m_gridType         |-> str_box,
     m_domain           |-> str_full,
     m_avoidOriginNSize |-> TRUE,
     m_avoidOrigin      |-> [i \in 0..2 |-> TRUE],
     m_dxyz             |-> FromInt(0),
     m_d                |-> [i \in 0..2 |-> Frac(3, 10)],
     m_xyzmax           |-> FromInt(Sentinel),
     m_xyzmin           |-> FromInt(Sentinel),
     m_min              |-> [i \in 0..2 |-> FromInt(-1)],
     m_max              |-> [i \in 0..2 |-> FromInt(1)],
     m_timeMethod       |-> str_courant_static,
     m_dtfac            |-> FromInt(0),
     m_courant_fac      |-> Frac(9, 10),
     m_courant_speed    |-> FromInt(0),
     m_courant_min_time |-> FromInt(0)]

-----------------------------------------------------------------------------
(* ParParser: the resolver stages.  Each is a function of the store, the   *)
(* working state w and the grid gh; its result is                          *)
(* [fail, kind, text, thorn, gh]: whether it threw, which error with which *)
(* text, and the working state and grid it leaves.  The working arrays     *)
(* have three entries; a stage that runs with dimension 4 reads index 3    *)
(* beyond them, and oob gives the values those reads produce.              *)

Returned(w, gh) == [fail |-> FALSE, kind |-> "none", text |-> <<>>, thorn |-> w, gh |-> gh]
Thrown(kind, text, w, gh) == [fail |-> TRUE, kind |-> kind, text |-> text, thorn |-> w, gh |-> gh]

\* a[i] for an array of the working state
At(a, i, oob) == IF i \in DOMAIN a THEN a[i] ELSE oob

Cactus_gets == <<Get(cactus_cctk_itlast, "unsigned", "m_it_max", -1)>>

\* proceedCactus, on [m_it_max |-> ...]
proceedCactus(map, itmax) ==
    LET got(r) ==
            [fail |-> r.fail, text |-> r.text,
             m_it_max |-> IF exists(map, cactus_cctk_itlast) /\ ~r.fail
                          THEN [indet |-> FALSE, hi |-> r.w.m_it_max.hi, lo |-> r.w.m_it_max.lo]
                          ELSE itmax]
    IN  got(GET(Cactus_gets, map, [m_it_max |-> itmax]))

PUGH_gets ==
    <<Get(driver_global_nsize, "int", "m_globalNSize", -1),
      Get(driver_global_nx,    "int", "m_global", 0),
      Get(driver_global_ny,    "int", "m_global", 1),
      Get(driver_global_nz,    "int", "m_global", 2),
      Get(driver_local_nsize,  "int", "m_localNSize", -1),
      Get(driver_local_nx,     "int", "m_local", 0),
      Get(driver_local_ny,     "int", "m_local", 1),
      Get(driver_local_nz,     "int", "m_local", 2)>>

\* a variant of resolvePUGH in which a positive uniform size fills only
\* the axes whose own key has given no positive size
resolvePUGH_axisFirst(w0, gh, oob) ==
    LET dim   == gh.m_cctk_dim
        fill(sizes, n) == [i \in 0..2 |-> IF sizes[i] > 0 THEN sizes[i] ELSE n]
        w1    == IF w0.m_localNSize > 0
                 THEN [w0 EXCEPT !.m_local = fill(w0.m_local, w0.m_localNSize)]
                 ELSE w0
        local == w1.m_local[0] > 0 /\ w1.m_local[1] > 0 /\ w1.m_local[2] > 0
        w2    == IF ~local /\ w1.m_globalNSize > 0
                 THEN [w1 EXCEPT !.m_global = fill(w1.m_global, w1.m_globalNSize)]
                 ELSE w1
        src   == IF local THEN w2.m_local ELSE w2.m_global
        g1    == SetElems(gh, "m_cctk_gsh", "cctk_gsh", [i \in Axes(dim) |-> At(src, i, oob.gsh)])
        g2    == SetElems(g1, "m_cctk_lsh", "cctk_lsh", [i \in Axes(dim) |-> At(src, i, oob.lsh)])
    IN  Returned(w2, g2)

\* proceedPUGH after its GETs: oob.gsh and oob.lsh are what m_local[3] or
\* m_global[3] yield when read for cctk_gsh()[3] and cctk_lsh()[3]
resolvePUGH(w0, gh, oob) ==
    LET dim   == gh.m_cctk_dim
        w1    == IF w0.m_localNSize > 0
                 THEN [w0 EXCEPT !.m_local = [i \in 0..2 |-> w0.m_localNSize]]
                 ELSE w0
        local == w1.m_local[0] > 0 /\ w1.m_local[1] > 0 /\ w1.m_local[2] > 0
        w2    == IF ~local /\ w1.m_globalNSize > 0
                 THEN [w1 EXCEPT !.m_global = [i \in 0..2 |-> w1.m_globalNSize]]
                 ELSE w1
        src   == IF local THEN w2.m_local ELSE w2.m_global
        g1    == SetElems(gh, "m_cctk_gsh", "cctk_gsh", [i \in Axes(dim) |-> At(src, i, oob.gsh)])
        g2    == SetElems(g1, "m_cctk_lsh", "cctk_lsh", [i \in Axes(dim) |-> At(src, i, oob.lsh)])
    IN  Returned(w2, g2)

proceedPUGH(map, w, gh, oob) ==
    LET got(r) ==
            IF r.fail THEN Thrown("convert", r.text, r.w, gh)
            ELSE resolvePUGH(r.w, gh, oob)
    IN  got(GET(PUGH_gets, map, w))

CartGrid_gets ==
    <<Get(grid_type,          "std::string", "m_gridType", -1),
      Get(grid_domain,        "std::string", "m_domain", -1),
      Get(grid_avoid_origin,  "bool", "m_avoidOriginNSize", -1),
      Get(grid_avoid_originx, "bool", "m_avoidOrigin", 0),
      Get(grid_avoid_originy, "bool", "m_avoidOrigin", 1),
      Get(grid_avoid_originz, "bool", "m_avoidOrigin", 2)>>

byrange_gets ==
    <<Get(grid_xyzmax, "CCTK_REAL", "m_xyzmax", -1),
      Get(grid_xyzmin, "CCTK_REAL", "m_xyzmin", -1),
      Get(grid_xmax,   "CCTK_REAL", "m_max", 0),
      Get(grid_ymax,   "CCTK_REAL", "m_max", 1),
      Get(grid_zmax,   "CCTK_REAL", "m_max", 2),
      Get(grid_xmin,   "CCTK_REAL", "m_min", 0),
      Get(grid_ymin,   "CCTK_REAL", "m_min", 1),
      Get(grid_zmin,   "CCTK_REAL", "m_min", 2)>>

byspacing_gets ==
    <<Get(grid_dxyz, "CCTK_REAL", "m_dxyz", -1),
      Get(grid_dx,   "CCTK_REAL", "m_d", 0),
      Get(grid_dy,   "CCTK_REAL", "m_d", 1),
      Get(grid_dz,   "CCTK_REAL", "m_d", 2)>>

\* variant: "box" spaced like a range of length 1, 1.0 / (gsh - 1)
geometry_box_endpoints(w, gh) ==
    LET g1 == SetAll(gh, "m_cctk_origin_space", "cctk_origin_space", Frac(-1, 2))
    IN  Returned(w, SetElems(g1, "m_cctk_delta_space", "cctk_delta_space",
                             [i \in Axes(gh.m_cctk_dim) |->
                                 RDiv(FromInt(1), FromInt(g1.m_cctk_gsh[i] - 1))]))

\* the branch for grid type "box"
geometry_box(w, gh) ==
    LET dim == gh.m_cctk_dim
        g1  == SetAll(gh, "m_cctk_origin_space", "cctk_origin_space", Frac(-1, 2))
        g2  == SetElems(g1, "m_cctk_delta_space", "cctk_delta_space",
                        [i \in Axes(dim) |-> RDiv(FromInt(1), FromInt(g1.m_cctk_gsh[i]))])
    IN  Returned(w, g2)

\* the branch for grid type "byrange", after its GETs: oob.min, oob.max
\* and oob.min2 are what the reads of m_min[3], m_max[3] and again m_min[3]
\* yield
resolve_byrange(w0, gh, oob) ==
    LET dim == gh.m_cctk_dim
        w1  == IF RNe(w0.m_xyzmax, FromInt(Sentinel))
               THEN [w0 EXCEPT !.m_max = [i \in 0..2 |-> w0.m_xyzmax]] ELSE w0
        w2  == IF RNe(w1.m_xyzmin, FromInt(Sentinel))
               THEN [w1 EXCEPT !.m_min = [i \in 0..2 |-> w1.m_xyzmin]] ELSE w1
        g1  == SetElems(gh, "m_cctk_origin_space", "cctk_origin_space",
                        [i \in Axes(dim) |-> At(w2.m_min, i, oob.min)])
        g2  == SetElems(g1, "m_cctk_delta_space", "cctk_delta_space",
                        [i \in Axes(dim) |->
                            RDiv(RSub(At(w2.m_max, i, oob.max), At(w2.m_min, i, oob.min2)),
                                 FromInt(g1.m_cctk_gsh[i] - 1))])
    IN  Returned(w2, g2)

geometry_byrange(map, w, gh, oob) ==
    LET got(r) ==
            IF r.fail THEN Thrown("convert", r.text, r.w, gh)
            ELSE resolve_byrange(r.w, gh, oob)
    IN  got(GET(byrange_gets, map, w))

\* the branch for grid type "byspacing", after its GETs: oob.d and
\* oob.avoid are what the reads of m_d[3] and m_avoidOrigin[3] yield
resolve_byspacing(w0, gh, oob) ==
    LET dim == gh.m_cctk_dim
        w1  == IF RLt(FromInt(0), w0.m_dxyz)
               THEN [w0 EXCEPT !.m_d = [i \in 0..2 |-> w0.m_dxyz]] ELSE w0
        g1  == SetElems(gh, "m_cctk_delta_space", "cctk_delta_space",
                        [i \in Axes(dim) |-> At(w1.m_d, i, oob.d)])
        avoid(i) == IF At(w1.m_avoidOrigin, i, oob.avoid) THEN 1 ELSE 0
        g2  == SetElems(g1, "m_cctk_origin_space", "cctk_origin_space",
                        [i \in Axes(dim) |->
                            RMul(RMul(Frac(-1, 2),
                                      FromInt(g1.m_cctk_gsh[i] - 1
                                              - CRem(avoid(i) * g1.m_cctk_gsh[i], 2))),
                                 g1.m_cctk_delta_space[i])])
    IN  Returned(w1, g2)

geometry_byspacing(map, w, gh, oob) ==
    LET got(r) ==
            IF r.fail THEN Thrown("convert", r.text, r.w, gh)
            ELSE resolve_byspacing(r.w, gh, oob)
    IN  got(GET(byspacing_gets, map, w))

\* the branch on m_gridType
\* variant: a grid type that is none of the three is resolved as "box"
geometry_default(map, w, gh, oob) ==
    IF equals(w.m_gridType, str_byrange) THEN geometry_byrange(map, w, gh, oob)
    ELSE IF equals(w.m_gridType, str_byspacing) THEN geometry_byspacing(map, w, gh, oob)
    ELSE geometry_box(w, gh)

geometry(map, w, gh, oob) ==
    IF equals(w.m_gridType, str_box) THEN geometry_box(w, gh)
    ELSE IF equals(w.m_gridType, str_byrange) THEN geometry_byrange(map, w, gh, oob)
    ELSE IF equals(w.m_gridType, str_byspacing) THEN geometry_byspacing(map, w, gh, oob)
    ELSE Thrown("gridtype", w.m_gridType, w, gh)

\* proceedCartGrid up to the call of setupSymmetry
proceedCartGrid(map, w, gh, oob) ==
    LET uniform(w0) ==
            IF ~w0.m_avoidOriginNSize
            THEN [w0 EXCEPT !.m_avoidOrigin = [i \in 0..2 |-> FALSE]]
            ELSE w0
        got(r) ==
            IF r.fail THEN Thrown("convert", r.text, r.w, gh)
            ELSE geometry(map, uniform(r.w), gh, oob)
    IN  got(GET(CartGrid_gets, map, w))

\* the loop "for (; i >= 0; --i)" of setupSymmetry
RECURSIVE applySymmetry(_, _, _, _)
applySymmetry(w, gh, i, quadrant) ==
    IF i < 0 THEN gh
    ELSE LET x == IF quadrant THEN i ELSE 2 - i
         IN  IF x >= gh.m_cctk_dim THEN applySymmetry(w, gh, i - 1, quadrant)
             ELSE LET o == IF w.m_avoidOrigin[x]
                           THEN RDiv(RNeg(gh.m_cctk_delta_space[x]), FromInt(2))
                           ELSE RNeg(gh.m_cctk_delta_space[x])
                  IN  applySymmetry(w,
                                    SetElems(gh, "m_cctk_origin_space", "cctk_origin_space",
                                             [k \in {x} |-> o]),
                                    i - 1, quadrant)

\* variant: "bitant" walks the axes like "quadrant" and adjusts axis 0
setupSymmetry_bitantX(w, gh) ==
    IF equals(w.m_domain, str_bitant) THEN Returned(w, applySymmetry(w, gh, 0, TRUE))
    ELSE IF equals(w.m_domain, str_quadrant) THEN Returned(w, applySymmetry(w, gh, 1, TRUE))
    ELSE IF equals(w.m_domain, str_octant) THEN Returned(w, applySymmetry(w, gh, 2, FALSE))
    ELSE IF equals(w.m_domain, str_full) THEN Returned(w, gh)
    ELSE Thrown("domain", w.m_domain, w, gh)

setupSymmetry(w, gh) ==
    IF equals(w.m_domain, str_bitant) THEN Returned(w, applySymmetry(w, gh, 0, FALSE))
    ELSE IF equals(w.m_domain, str_quadrant) THEN Returned(w, applySymmetry(w, gh, 1, TRUE))
    ELSE IF equals(w.m_domain, str_octant) THEN Returned(w, applySymmetry(w, gh, 2, FALSE))
    ELSE IF equals(w.m_domain, str_full) THEN Returned(w, gh)
    ELSE Thrown("domain", w.m_domain, w, gh)

Time_gets ==
    <<Get(time_timestep_method, "std::string", "m_timeMethod", -1),
      Get(time_dtfac,           "CCTK_REAL", "m_dtfac", -1),
      Get(time_courant_fac,     "CCTK_REAL", "m_courant_fac", -1)>>

\* CGETANDSET(timestep, CCTK_REAL, cctk_delta_time), on [tmp |-> ...]
CGETANDSET_timestep(map, gh) ==
    LET got(r) ==
            IF r.fail THEN [fail |-> TRUE, text |-> r.text, gh |-> gh]
            ELSE [fail |-> FALSE, text |-> <<>>,
                  gh |-> SetScalar(gh, "m_cctk_delta_time", "cctk_delta_time", r.w.tmp)]
    IN  IF ~exists(map, timestep) THEN [fail |-> FALSE, text |-> <<>>, gh |-> gh]
        ELSE got(GET(<<Get(timestep, "CCTK_REAL", "tmp", -1)>>, map, [tmp |-> FromInt(0)]))

\* proceedTime after its GETs
resolveTime(map, w, gh) ==
    LET set(g, delta_time) == SetScalar(g, "m_cctk_delta_time", "cctk_delta_time", delta_time)
        given(c) ==
            IF c.fail THEN Thrown("convert", c.text, w, gh)
            ELSE Returned(w, set(c.gh, FromInt(0)))
        speed(min, sdim) ==
            Returned(w, set(gh, RDiv(RDiv(RMul(w.m_courant_fac, min), w.m_courant_speed), sdim)))
        time(sdim) ==
            Returned(w, set(gh, RDiv(RMul(w.m_courant_fac, w.m_courant_min_time), sdim)))
    IN  IF equals(w.m_timeMethod, str_given)
        THEN given(CGETANDSET_timestep(map, gh))
        ELSE IF equals(w.m_timeMethod, str_courant_static)
        THEN Returned(w, set(gh, RMul(w.m_dtfac, min_cctk_delta_space(gh))))
        ELSE IF equals(w.m_timeMethod, str_courant_speed)
        THEN speed(min_cctk_delta_space(gh), sqrt(gh.m_cctk_dim))
        ELSE IF equals(w.m_timeMethod, str_courant_time)
        THEN time(sqrt(gh.m_cctk_dim))
        ELSE Thrown("timemethod", w.m_timeMethod, w, gh)

\* the names the GET macros of the four stages look up
GetNames ==
    {timestep} \cup
    UNION {{gets[j].name : j \in 1..Len(gets)} :
              gets \in {Cactus_gets, PUGH_gets, CartGrid_gets, byrange_gets,
                        byspacing_gets, Time_gets}}

\* variant: the last stage throws when the store holds a key no GET names
proceedTime_strict(map, w, gh) ==
    LET got(r) ==
            IF r.fail THEN Thrown("convert", r.text, r.w, gh)
            ELSE resolveTime(map, r.w, gh)
    IN  IF \E k \in DOMAIN map : k \notin GetNames
        THEN Thrown("unknownkey", <<>>, w, gh)
        ELSE got(GET(Time_gets, map, w))

proceedTime(map, w, gh) ==
    LET got(r) ==
            IF r.fail THEN Thrown("convert", r.text, r.w, gh)
            ELSE resolveTime(map, r.w, gh)
    IN  got(GET(Time_gets, map, w))

-----------------------------------------------------------------------------
(* Parameter files                                                         *)

\* the number of lines a parameter file holds after its header
MaxLines == 2

RECURSIVE SeqsUpTo(_, _)
SeqsUpTo(S, n) ==
    IF n = 0 THEN {<<>>}
    ELSE LET shorter == SeqsUpTo(S, n - 1)
         IN  shorter \cup {Append(f, x) : f \in {g \in shorter : Len(g) = n - 1}, x \in S}

\* Families of parameter files: the lines of header, then up to MaxLines
\* lines of pool in any order and with repetitions.
Lexical ==
    [header |-> <<<<"A","c","t","i","v","e","T","h","o","r","n","s"," ","="," ","\"","P","U","G","H"," ","T","i","m","e","\"">>>>,  \* 'ActiveThorns = "PUGH Time"'
     pool   |-> {
        <<"G","r","i","d",":",":","T","y","p","e"," ","="," ","\"","B","o","x","\"">>,  \* 'Grid::Type = "Box"'
        <<"g","r","i","d",":",":","t","y","p","e"," ","="," ","b","y","r","a","n","g","e">>,  \* 'grid::type = byrange'
        <<"G","R","I","D",":",":","D","O","M","A","I","N","=","O","c","t","a","n","t"," ">>,  \* 'GRID::DOMAIN=Octant '
        <<"#"," ","c","o","m","m","e","n","t">>,  \* '# comment'
        <<" ","\t">>,  \* ' <TAB>'
        <<"f","o","o"," ","b","a","r">>,  \* 'foo bar'
        <<"x"," ","="," ","1">> }]  \* 'x = 1'

Values ==
    [header |-> <<>>,
     pool   |-> {
        <<"a",":",":","b"," ","="," ","\""," "," ","Y","e","s"," "," ","\"">>,  \* 'a::b = "  Yes  "'
        <<"a",":",":","b"," ","="," ","N">>,  \* 'a::b = N'
        <<"A",":",":","B"," ","="," ","n","o","p","e">>,  \* 'A::B = nope'
        <<"a",":",":","b"," ","="," ","\"","x"," "," ","y","\""," ","z">>,  \* 'a::b = "x  y" z'
        <<"c",":",":","d"," ","="," ","t","R","U","E"," ">>,  \* 'c::d = tRUE '
        <<"c",":",":","d"," ","="," ","\"","F","\"","a","l","\"","s","e","\"">>,  \* 'c::d = "F"al"se"'
        <<"c",":",":","d"," ","="," ","\"","\"">> }]  \* 'c::d = ""'

Decomposition ==
    [header |-> <<>>,
     pool   |-> {
        <<"d","r","i","v","e","r",":",":","l","o","c","a","l","_","n","s","i","z","e"," ","="," ","5">>,  \* 'driver::local_nsize = 5'
        <<"d","r","i","v","e","r",":",":","l","o","c","a","l","_","n","x"," ","="," ","7">>,  \* 'driver::local_nx = 7'
        <<"d","r","i","v","e","r",":",":","l","o","c","a","l","_","n","y"," ","="," ","3">>,  \* 'driver::local_ny = 3'
        <<"d","r","i","v","e","r",":",":","l","o","c","a","l","_","n","z"," ","="," ","2">>,  \* 'driver::local_nz = 2'
        <<"d","r","i","v","e","r",":",":","g","l","o","b","a","l","_","n","s","i","z","e"," ","="," ","4">>,  \* 'driver::global_nsize = 4'
        <<"d","r","i","v","e","r",":",":","g","l","o","b","a","l","_","n","y"," ","="," ","1","1">>,  \* 'driver::global_ny = 11'
        <<"d","r","i","v","e","r",":",":","g","l","o","b","a","l","_","n","x"," ","="," ","x","7">> }]  \* 'driver::global_nx = x7'

Box ==
    [header |-> <<>>,
     pool   |-> {
        <<"g","r","i","d",":",":","t","y","p","e"," ","="," ","B","O","X">>,  \* 'grid::type = BOX'
        <<"g","r","i","d",":",":","d","o","m","a","i","n"," ","="," ","F","u","l","l">>,  \* 'grid::domain = Full'
        <<"g","r","i","d",":",":","d","o","m","a","i","n"," ","="," ","b","i","t","a","n","t">>,  \* 'grid::domain = bitant'
        <<"d","r","i","v","e","r",":",":","g","l","o","b","a","l","_","n","x"," ","="," ","0">>,  \* 'driver::global_nx = 0'
        <<"d","r","i","v","e","r",":",":","g","l","o","b","a","l","_","n","y"," ","="," ","1","0">>,  \* 'driver::global_ny = 10'
        <<"d","r","i","v","e","r",":",":","g","l","o","b","a","l","_","n","s","i","z","e"," ","="," ","4">>,  \* 'driver::global_nsize = 4'
        <<"d","r","i","v","e","r",":",":","l","o","c","a","l","_","n","s","i","z","e"," ","="," ","5">> }]  \* 'driver::local_nsize = 5'

ByRange ==
    [header |-> << <<"g","r","i","d",":",":","t","y","p","e"," ","="," ","b","y","r","a","n","g","e">> >>,  \* 'grid::type = byrange'
     pool   |-> {
        <<"g","r","i","d",":",":","x","y","z","m","i","n"," ","="," ","-","2">>,  \* 'grid::xyzmin = -2'
        <<"g","r","i","d",":",":","x","y","z","m","i","n"," ","="," ","-","4","2","4","2","4","2">>,  \* 'grid::xyzmin = -424242'
        <<"g","r","i","d",":",":","x","m","i","n"," ","="," ","0",".","5">>,  \* 'grid::xmin = 0.5'
        <<"g","r","i","d",":",":","x","m","a","x"," ","="," ","0",".","5">>,  \* 'grid::xmax = 0.5'
        <<"g","r","i","d",":",":","x","y","z","m","a","x"," ","="," ","3">>,  \* 'grid::xyzmax = 3'
        <<"d","r","i","v","e","r",":",":","g","l","o","b","a","l","_","n","s","i","z","e"," ","="," ","1","1">>,  \* 'driver::global_nsize = 11'
        <<"d","r","i","v","e","r",":",":","g","l","o","b","a","l","_","n","x"," ","="," ","1">> }]  \* 'driver::global_nx = 1'

BySpacing ==
    [header |-> << <<"g","r","i","d",":",":","t","y","p","e"," ","="," ","b","y","s","p","a","c","i","n","g">> >>,  \* 'grid::type = byspacing'
     pool   |-> {
        <<"g","r","i","d",":",":","d","x","y","z"," ","="," ","0">>,  \* 'grid::dxyz = 0'
        <<"g","r","i","d",":",":","d","x","y","z"," ","="," ","0",".","1">>,  \* 'grid::dxyz = 0.1'
        <<"g","r","i","d",":",":","d","x"," ","="," ","0",".","2">>,  \* 'grid::dx = 0.2'
        <<"g","r","i","d",":",":","a","v","o","i","d","_","o","r","i","g","i","n"," ","="," ","n","o">>,  \* 'grid::avoid_origin = no'
        <<"g","r","i","d",":",":","a","v","o","i","d","_","o","r","i","g","i","n","x"," ","="," ","n","o">>,  \* 'grid::avoid_originx = no'
        <<"d","r","i","v","e","r",":",":","g","l","o","b","a","l","_","n","s","i","z","e"," ","="," ","4">>,  \* 'driver::global_nsize = 4'
        <<"d","r","i","v","e","r",":",":","g","l","o","b","a","l","_","n","x"," ","="," ","5">> }]  \* 'driver::global_nx = 5'

Symmetry ==
    [header |-> <<>>,
     pool   |-> {
        <<"g","r","i","d",":",":","d","o","m","a","i","n"," ","="," ","b","i","t","a","n","t">>,  \* 'grid::domain = bitant'
        <<"g","r","i","d",":",":","d","o","m","a","i","n"," ","="," ","Q","u","a","d","r","a","n","t">>,  \* 'grid::domain = Quadrant'
        <<"g","r","i","d",":",":","d","o","m","a","i","n"," ","="," ","o","c","t","a","n","t">>,  \* 'grid::domain = octant'
        <<"g","r","i","d",":",":","a","v","o","i","d","_","o","r","i","g","i","n"," ","="," ","n","o">>,  \* 'grid::avoid_origin = no'
        <<"g","r","i","d",":",":","a","v","o","i","d","_","o","r","i","g","i","n","y"," ","="," ","n","o">>,  \* 'grid::avoid_originy = no'
        <<"g","r","i","d",":",":","t","y","p","e"," ","="," ","b","y","r","a","n","g","e">>,  \* 'grid::type = byrange'
        <<"d","r","i","v","e","r",":",":","g","l","o","b","a","l","_","n","x"," ","="," ","4">> }]  \* 'driver::global_nx = 4'

TimeStep ==
    [header |-> <<>>,
     pool   |-> {
        <<"t","i","m","e",":",":","c","o","u","r","a","n","t","_","s","p","e","e","d"," ","="," ","2">>,  \* 'time::courant_speed = 2'
        <<"t","i","m","e",":",":","c","o","u","r","a","n","t","_","m","i","n","_","t","i","m","e"," ","="," ","2">>,  \* 'time::courant_min_time = 2'
        <<"t","i","m","e",":",":","t","i","m","e","s","t","e","p","_","m","e","t","h","o","d"," ","="," ","g","i","v","e","n">>,  \* 'time::timestep_method = given'
        <<"t","i","m","e",":",":","t","i","m","e","s","t","e","p"," ","="," ","0",".","2","5">>,  \* 'time::timestep = 0.25'
        <<"t","i","m","e",":",":","t","i","m","e","s","t","e","p","_","m","e","t","h","o","d"," ","="," ","C","o","u","r","a","n","t","_","S","t","a","t","i","c">>,  \* 'time::timestep_method = Courant_Static'
        <<"t","i","m","e",":",":","t","i","m","e","s","t","e","p","_","m","e","t","h","o","d"," ","="," ","c","o","u","r","a","n","t","_","s","p","e","e","d">>,  \* 'time::timestep_method = courant_speed'
        <<"t","i","m","e",":",":","t","i","m","e","s","t","e","p","_","m","e","t","h","o","d"," ","="," ","c","o","u","r","a","n","t","_","t","i","m","e">>,  \* 'time::timestep_method = courant_time'
        <<"t","i","m","e",":",":","d","t","f","a","c"," ","="," ","0",".","5">>,  \* 'time::dtfac = 0.5'
        <<"t","i","m","e",":",":","c","o","u","r","a","n","t","_","f","a","c"," ","="," ","0",".","8">>,  \* 'time::courant_fac = 0.8'
        <<"d","r","i","v","e","r",":",":","g","l","o","b","a","l","_","n","x"," ","="," ","5">> }]  \* 'driver::global_nx = 5'

Degenerate ==
    [header |-> << <<"g","r","i","d",":",":","t","y","p","e"," ","="," ","b","y","r","a","n","g","e">>, <<"d","r","i","v","e","r",":",":","g","l","o","b","a","l","_","n","x"," ","="," ","1">> >>,  \* 'grid::type = byrange', 'driver::global_nx = 1'
     pool   |-> {
        <<"g","r","i","d",":",":","x","m","a","x"," ","="," ","-","1">>,  \* 'grid::xmax = -1'
        <<"g","r","i","d",":",":","x","y","z","m","a","x"," ","="," ","-","1">>,  \* 'grid::xyzmax = -1'
        <<"d","r","i","v","e","r",":",":","g","l","o","b","a","l","_","n","s","i","z","e"," ","="," ","1">>,  \* 'driver::global_nsize = 1'
        <<"t","i","m","e",":",":","d","t","f","a","c"," ","="," ","0",".","5">>,  \* 'time::dtfac = 0.5'
        <<"t","i","m","e",":",":","d","t","f","a","c"," ","="," ","0">> }]  \* 'time::dtfac = 0'

Keywords ==
    [header |-> <<>>,
     pool   |-> {
        <<"m","y","t","h","o","r","n",":",":","g","l","o","b","a","l","_","n","x"," ","="," ","t","e","n">>,  \* 'mythorn::global_nx = ten'
        <<"g","r","i","d",":",":","t","y","p","e"," ","="," ","\"","b","o","x"," ","c","a","r","\"">>,  \* 'grid::type = "box car"'
        <<"g","r","i","d",":",":","t","y","p","e"," ","="," ","s","p","h","e","r","e">>,  \* 'grid::type = sphere'
        <<"g","r","i","d",":",":","t","y","p","e"," ","=">>,  \* 'grid::type ='
        <<"g","r","i","d",":",":","d","o","m","a","i","n"," ","="," ","h","a","l","f">>,  \* 'grid::domain = half'
        <<"t","i","m","e",":",":","t","i","m","e","s","t","e","p","_","m","e","t","h","o","d"," ","="," ","r","k","4">>,  \* 'time::timestep_method = rk4'
        <<"d","r","i","v","e","r",":",":","g","l","o","b","a","l","_","n","x"," ","="," ","t","e","n">>,  \* 'driver::global_nx = ten'
        <<"g","r","i","d",":",":","a","v","o","i","d","_","o","r","i","g","i","n"," ","="," ","m","a","y","b","e">>,  \* 'grid::avoid_origin = maybe'
        <<"c","a","c","t","u","s",":",":","c","c","t","k","_","i","t","l","a","s","t"," ","="," ","1","0","0">> }]  \* 'cactus::cctk_itlast = 100'

Families == {Lexical, Values, Decomposition, Box, ByRange, BySpacing, Symmetry,
             TimeStep, Degenerate, Keywords}

Files == UNION {{fam.header \o tail : tail \in SeqsUpTo(fam.pool, MaxLines)} : fam \in Families}

\* what a read beyond a three-entry working array can yield
OobInts == {0, 7}
OobReals == {FromInt(0), Frac(1, 4)}

-----------------------------------------------------------------------------
(* The parser as a state machine: one call of parse() on a new ParParser   *)

VARIABLES
    m_parsed,   \* ParParser::m_parsed
    m_file,     \* ParParser::m_file: "null", "unreadable" or "readable"
    parFile,    \* the lines of the parameter file
    lineno,     \* the number of lines read so far, the one in parseLine included
    m_parMap,   \* ParParser::m_parMap
    m_cctkGH,   \* the grid *m_cctkGH
    thorn,      \* the working state m_globalNSize .. m_courant_min_time
    m_it_max,   \* ParParser::m_it_max
    pc,         \* the next step of parse(), "done", or "failed"
    err,        \* the exception parse() threw: [kind, text]
    passes,     \* the number of calls of parse() so far, the running one included
    caller,     \* what the caller of getCctkGH() and itMax() got from them
    grid,       \* the CactusGrid objects "a" and "b" of a program using the class
    last,       \* the last operation on them and the runs of copyData in it
    fault,      \* "none", or "abort" once undefined behaviour has ended that program
    ops         \* the number of operations on the grids so far

parserVars == <<m_parsed, m_file, parFile, lineno, m_parMap, m_cctkGH, thorn, m_it_max, pc, err>>
callerVars == <<passes, caller>>
gridVars == <<grid, last, fault, ops>>

vars == <<parserVars, callerVars, gridVars>>

EmptyMap == [k \in {} |-> <<>>]

\* the caller has called neither getCctkGH() nor itMax()
NoCall == [n |-> 0, call |-> "none", threw |-> FALSE, at |-> "open", gh |-> "none",
           it_max |-> [indet |-> TRUE, hi |-> 0, lo |-> 0], held |-> FALSE]

\* the names of the CactusGrid objects; NoGrid is an object not constructed
Names == {"a", "b"}
NoGrid == [m_cctk_dim |-> 0]
NoOp == [op |-> "none", target |-> "a", source |-> "a", arg |-> 0, copies |-> <<>>]

\* ParParser(file): m_parsed(false), new CactusGrid(CCTKGHDIM), initDefaults()
Init ==
    /\ m_parsed = FALSE
    /\ \/ m_file \in {"null", "unreadable"} /\ parFile = <<>>
       \/ m_file = "readable" /\ parFile \in Files
    /\ lineno = 0
    /\ m_parMap = EmptyMap
    /\ \E dim \in Dims : m_cctkGH = initCctkDefaults(CactusGrid(dim))
    /\ thorn = initThornDefaults
    /\ m_it_max = [indet |-> TRUE, hi |-> 0, lo |-> 0]
    /\ pc = "open"
    /\ err = [kind |-> "none", text |-> <<>>]
    /\ passes = 1
    /\ caller = NoCall
    /\ grid = [n \in Names |-> NoGrid]
    /\ last = NoOp
    /\ fault = "none"
    /\ ops = 0

Throw(kind, text) ==
    /\ pc' = "failed"
    /\ err' = [kind |-> kind, text |-> text]

\* parse(): the checks of m_file and the opening of the file
Open ==
    /\ pc = "open"
    /\ IF m_file = "readable"
       THEN pc' = "getline" /\ err' = err
       ELSE Throw("file", <<>>)
    /\ UNCHANGED <<m_parsed, m_file, parFile, lineno, m_parMap, m_cctkGH, thorn, m_it_max>>
    /\ UNCHANGED <<callerVars, gridVars>>

\* parse(): one turn of the reading loop, getline and parseLine(line).  (A
\* file that ends in a newline has one more turn, on the empty line, which
\* parseLine passes over.)
ParseLine ==
    /\ pc = "getline"
    /\ lineno < Len(parFile)
    /\ lineno' = lineno + 1
    /\ LET line == parFile[lineno + 1]
       IN  IF LineKind(line) = "error"
           THEN Throw("syntax", line) /\ m_parMap' = m_parMap
           ELSE /\ m_parMap' = parseLineStore(m_parMap, line)
                /\ UNCHANGED <<pc, err>>
    /\ UNCHANGED <<m_parsed, m_file, parFile, m_cctkGH, thorn, m_it_max>>
    /\ UNCHANGED <<callerVars, gridVars>>

\* parse(): the end of the file is reached; prepareValues()
PrepareValues ==
    /\ pc = "getline"
    /\ lineno = Len(parFile)
    /\ m_parMap' = prepareValuesStore(m_parMap)
    /\ pc' = "proceedCactus"
    /\ UNCHANGED <<m_parsed, m_file, parFile, lineno, m_cctkGH, thorn, m_it_max, err>>
    /\ UNCHANGED <<callerVars, gridVars>>

\* the state a resolver stage leaves: on to pc next, or the exception
Leave(r, next) ==
    /\ thorn' = r.thorn
    /\ m_cctkGH' = r.gh
    /\ IF r.fail THEN Throw(r.kind, r.text) ELSE pc' = next /\ err' = err

ProceedCactus ==
    /\ pc = "proceedCactus"
    /\ LET r == proceedCactus(m_parMap, m_it_max)
       IN  /\ m_it_max' = r.m_it_max
           /\ IF r.fail THEN Throw("convert", r.text)
              ELSE pc' = "proceedPUGH" /\ err' = err
    /\ UNCHANGED <<m_parsed, m_file, parFile, lineno, m_parMap, m_cctkGH, thorn>>
    /\ UNCHANGED <<callerVars, gridVars>>

\* the values the reads of index 3 yield; none are made below dimension 4
Oob(S) == IF m_cctkGH.m_cctk_dim > 3 THEN S ELSE {CHOOSE x \in S : TRUE}

ProceedPUGH ==
    /\ pc = "proceedPUGH"
    /\ \E v \in Oob(OobInts) :
          Leave(proceedPUGH(m_parMap, thorn, m_cctkGH, [gsh |-> v, lsh |-> v]),
                "proceedCartGrid")
    /\ UNCHANGED <<m_parsed, m_file, parFile, lineno, m_parMap, m_it_max>>
    /\ UNCHANGED <<callerVars, gridVars>>

ProceedCartGrid ==
    /\ pc = "proceedCartGrid"
    /\ \E lo \in Oob(OobReals), hi \in Oob(OobReals), a \in Oob(BOOLEAN) :
          Leave(proceedCartGrid(m_parMap, thorn, m_cctkGH,
                                [min |-> lo, min2 |-> lo, max |-> hi, d |-> hi, avoid |-> a]),
                "setupSymmetry")
    /\ UNCHANGED <<m_parsed, m_file, parFile, lineno, m_parMap, m_it_max>>
    /\ UNCHANGED <<callerVars, gridVars>>

SetupSymmetry ==
    /\ pc = "setupSymmetry"
    /\ Leave(setupSymmetry(thorn, m_cctkGH), "proceedTime")
    /\ UNCHANGED <<m_parsed, m_file, parFile, lineno, m_parMap, m_it_max>>
    /\ UNCHANGED <<callerVars, gridVars>>

ProceedTime ==
    /\ pc = "proceedTime"
    /\ Leave(proceedTime(m_parMap, thorn, m_cctkGH), "setupThorn")
    /\ UNCHANGED <<m_parsed, m_file, parFile, lineno, m_parMap, m_it_max>>
    /\ UNCHANGED <<callerVars, gridVars>>

\* SETUPTHORNPARAMETERS (the generated assignments to the parameters of the
\* thorns, which touch none of the state modelled here); m_parsed = true
Finish ==
    /\ pc = "setupThorn"
    /\ m_parsed' = TRUE
    /\ pc' = "done"
    /\ UNCHANGED <<m_file, parFile, lineno, m_parMap, m_cctkGH, thorn, m_it_max, err>>
    /\ UNCHANGED <<callerVars, gridVars>>

Next ==
    \/ Open
    \/ ParseLine
    \/ PrepareValues
    \/ ProceedCactus
    \/ ProceedPUGH
    \/ ProceedCartGrid
    \/ SetupSymmetry
    \/ ProceedTime
    \/ Finish

Spec == Init /\ [][Next]_vars

-----------------------------------------------------------------------------
(* A caller of the ParParser: it calls parse() again when a call has       *)
(* returned or thrown, and getCctkGH() and itMax() whenever no parse() is  *)
(* running.                                                                *)

\* the number of calls of parse()
MaxPasses == 2

\* the number of calls of getCctkGH() and itMax()
MaxCalls == 2

\* the number of lines of the parameter files of the caller
MaxCallerLines == 1

\* the parameter files of the caller
CallerFiles ==
    UNION {{fam.header \o tail : tail \in SeqsUpTo(fam.pool, MaxCallerLines)} :
              fam \in {Box, Keywords}}

\* ParParser(file) as in Init, on the files of the caller
CallerInit ==
    /\ m_parsed = FALSE
    /\ \/ m_file \in {"null", "unreadable"} /\ parFile = <<>>
       \/ m_file = "readable" /\ parFile \in CallerFiles
    /\ lineno = 0
    /\ m_parMap = EmptyMap
    /\ \E dim \in Dims : m_cctkGH = initCctkDefaults(CactusGrid(dim))
    /\ thorn = initThornDefaults
    /\ m_it_max = [indet |-> TRUE, hi |-> 0, lo |-> 0]
    /\ pc = "open"
    /\ err = [kind |-> "none", text |-> <<>>]
    /\ passes = 1
    /\ caller = NoCall
    /\ grid = [n \in Names |-> NoGrid]
    /\ last = NoOp
    /\ fault = "none"
    /\ ops = 0

\* parse() is called again.  The file m_file names may have been rewritten
\* or removed since the call before.
Parse ==
    /\ pc \in {"done", "failed"}
    /\ passes < MaxPasses
    /\ passes' = passes + 1
    /\ pc' = "open"
    /\ lineno' = 0
    /\ err' = [kind |-> "none", text |-> <<>>]
    /\ IF m_file = "null" THEN UNCHANGED <<m_file, parFile>>
       ELSE \/ m_file' = "unreadable" /\ parFile' = <<>>
            \/ m_file' = "readable" /\ parFile' \in CallerFiles
    /\ UNCHANGED <<m_parsed, m_parMap, m_cctkGH, thorn, m_it_max, caller, gridVars>>

\* no call of parse() is running: none was made yet, or the last has
\* returned or thrown
NotParsing == (pc = "open" /\ passes = 1) \/ pc \in {"done", "failed"}

\* getCctkGH(): the logic error, or the pointer m_cctkGH
GetCctkGH ==
    /\ NotParsing
    /\ caller.n < MaxCalls
    /\ caller' = [n      |-> caller.n + 1,
                  call   |-> "getCctkGH",
                  threw  |-> ~m_parsed,
                  at     |-> pc,
                  gh     |-> IF m_parsed THEN "m_cctkGH" ELSE "none",
                  it_max |-> caller.it_max,
                  held   |-> caller.held \/ m_parsed]
    /\ UNCHANGED <<parserVars, passes, gridVars>>

\* itMax(): the logic error, or m_it_max
ItMax ==
    /\ NotParsing
    /\ caller.n < MaxCalls
    /\ caller' = [n      |-> caller.n + 1,
                  call   |-> "itMax",
                  threw  |-> ~m_parsed,
                  at     |-> pc,
                  gh     |-> "none",
                  it_max |-> IF m_parsed THEN m_it_max ELSE caller.it_max,
                  held   |-> caller.held]
    /\ UNCHANGED <<parserVars, passes, gridVars>>

CallerNext ==
    \/ Open
    \/ ParseLine
    \/ PrepareValues
    \/ ProceedCactus
    \/ ProceedPUGH
    \/ ProceedCartGrid
    \/ SetupSymmetry
    \/ ProceedTime
    \/ Finish
    \/ Parse
    \/ GetCctkGH
    \/ ItMax

CallerSpec == CallerInit /\ [][CallerNext]_vars

-----------------------------------------------------------------------------
(* A program that uses CactusGrid objects: it constructs, assigns, resizes *)
(* and writes the grids "a" and "b".                                       *)

\* the number of operations the program makes
MaxOps == 3

\* the values the program writes into the grids
GridValues == {7, 8}

GridInit ==
    /\ m_parsed = FALSE
    /\ m_file = "null" /\ parFile = <<>>
    /\ lineno = 0
    /\ m_parMap = EmptyMap
    /\ m_cctkGH = initCctkDefaults(CactusGrid(3))
    /\ thorn = initThornDefaults
    /\ m_it_max = [indet |-> TRUE, hi |-> 0, lo |-> 0]
    /\ pc = "open"
    /\ err = [kind |-> "none", text |-> <<>>]
    /\ passes = 1
    /\ caller = NoCall
    /\ \E d \in Dims, bs \in {NoGrid} \cup {initCctkDefaults(CactusGrid(e)) : e \in Dims} :
          grid = [n \in Names |-> IF n = "a" THEN initCctkDefaults(CactusGrid(d)) ELSE bs]
    /\ last = NoOp
    /\ fault = "none"
    /\ ops = 0

\* one run of copyData: the dimension its loops use and the number of
\* boundary flags allocated in the source and in the destination
CopyRun(dim, dst, src) ==
    [dim |-> dim,
     src |-> Cardinality(DOMAIN src.m_cctk_bbox),
     dst |-> Cardinality(DOMAIN dst.m_cctk_bbox)]

\* the operation op on the object target ends: with the value g for it, or,
\* where it has undefined behaviour a build may not survive (ub), with the
\* program aborted and the objects as they were
Ends(op, target, source, arg, g, runs, ub) ==
    /\ fault = "none"
    /\ ops < MaxOps
    /\ ops' = ops + 1
    /\ last' = [op |-> op, target |-> target, source |-> source, arg |-> arg, copies |-> runs]
    /\ \E outcome \in (IF ub THEN {"none", "abort"} ELSE {"none"}) :
          /\ fault' = outcome
          /\ grid' = IF outcome = "none" THEN [grid EXCEPT ![target] = g] ELSE grid
    /\ UNCHANGED <<parserVars, callerVars>>

\* a run of copyData that writes m_cctk_bbox[2 * dim] beyond the allocation
WritesBeyond(run) == \E i \in bboxIndices(run.dim) : i >= run.dst

\* target.cctk_gsh()[i] = v
GridWrite ==
    \E target \in Names, i \in 0..3, v \in GridValues :
        /\ grid[target] # NoGrid
        /\ i < grid[target].m_cctk_dim
        /\ Ends("write", target, target, i,
                SetElems(grid[target], "m_cctk_gsh", "cctk_gsh", [k \in {i} |-> v]),
                <<>>, FALSE)

\* target.cctk_lsh(v)
GridUniform ==
    \E target \in Names, v \in GridValues :
        /\ grid[target] # NoGrid
        /\ Ends("uniform", target, target, v,
                SetAll(grid[target], "m_cctk_lsh", "cctk_lsh", v), <<>>, FALSE)

\* target = source, the same object included
GridAssign ==
    \E target \in Names, source \in Names :
        /\ grid[target] # NoGrid /\ grid[source] # NoGrid
        /\ IF target = source
           THEN Ends("assign", target, source, 0, grid[target], <<>>, FALSE)
           ELSE LET done(g) ==
                        LET run == CopyRun(g.m_cctk_dim, g, grid[source])
                        IN  Ends("assign", target, source, 0, g, <<run>>, WritesBeyond(run))
                IN  done(operator_assign(grid[target], grid[source]))

\* CactusGrid b(a): *this = other on an object whose m_cctk_dim and array
\* pointers are not initialized; operator= compares that m_cctk_dim and
\* frees or writes through those pointers
GridCopy ==
    /\ grid["a"] # NoGrid /\ grid["b"] = NoGrid
    /\ LET done(g) == Ends("copy", "b", "a", 0, g,
                           <<CopyRun(g.m_cctk_dim, g, grid["a"])>>, TRUE)
       IN  done(CactusGrid_copy(grid["a"]))

\* target.cctk_dim(dim)
GridSetDim ==
    \E target \in Names, dim \in Dims :
        /\ grid[target] # NoGrid
        /\ IF grid[target].m_cctk_dim >= dim
           THEN Ends("dim", target, target, dim, cctk_dim(grid[target], dim), <<>>, FALSE)
           ELSE LET done(old, g) ==
                        Ends("dim", target, target, dim, g,
                             <<CopyRun(old.m_cctk_dim, old, grid[target]),
                               CopyRun(old.m_cctk_dim, g, old)>>, TRUE)
                IN  done(CactusGrid_copy(grid[target]), cctk_dim(grid[target], dim))

GridNext ==
    \/ GridWrite
    \/ GridUniform
    \/ GridAssign
    \/ GridCopy
    \/ GridSetDim

GridSpec == GridInit /\ [][GridNext]_vars

-----------------------------------------------------------------------------
(* What the parameter file says, read off its lines                        *)

CaseVariants(k) ==
    {k, to_upper_copy(k), to_lower_copy(k),
     [i \in 1..Len(k) |-> IF i % 2 = 1 THEN toupper(k[i]) ELSE tolower(k[i])]}

HasUpper(s) == \E i \in 1..Len(s) : s[i] \in UpperSet

\* a line that is neither comment, blank nor assignment
Malformed(line) ==
    ~regex_comment(line) /\ ~regex_empty(line) /\ ~regex_parameter(line).matched

IsAssignment(line) ==
    ~regex_comment(line) /\ ~regex_empty(line) /\ regex_parameter(line).matched

\* the assignment lines among the first n lines of the file
Assignments(n) == {j \in 1..n : IsAssignment(parFile[j])}

SameKey(i, j) == equals(regex_parameter(parFile[i]).implname, regex_parameter(parFile[j]).implname)

\* the assignments among the first n lines that no later one of them overwrites
LastAssignments(n) ==
    {j \in Assignments(n) : \A i \in Assignments(n) : SameKey(i, j) => i <= j}

\* the assignments of the first n lines: key as stored, value as written
Tokens(n) ==
    [j \in 1..n |->
        LET r == regex_parameter(parFile[j])
        IN  [assigns |-> IsAssignment(parFile[j]),
             key     |-> to_lower_copy(r.implname),
             value   |-> r.value]]

\* the raw store the first n lines describe
RawStore(n) ==
    LET tok == Tokens(n)
        as  == {j \in 1..n : tok[j].assigns}
    IN  [k \in {tok[j].key : j \in as} |->
            tok[CHOOSE j \in as : tok[j].key = k /\ \A i \in as : tok[i].key = k => i <= j].value]

MalformedLines == {j \in 1..Len(parFile) : Malformed(parFile[j])}

-----------------------------------------------------------------------------
(* C1 *)

\* C1: every key of the parameter store is lower-case; an assignment is
\* found under every case variant of its key, with the value of the last
\* assignment to that key in any case; exists and getString answer every
\* case variant of a key alike.
C1_KeysLowerCase ==
    /\ \A k \in DOMAIN m_parMap :
          /\ ~HasUpper(k)
          /\ \A q \in CaseVariants(k) :
                exists(m_parMap, q) /\ getString(m_parMap, q) = m_parMap[k]
    /\ \A j \in 1..Len(parFile) :
          IsAssignment(parFile[j]) =>
             \A q \in CaseVariants(regex_parameter(parFile[j]).implname) :
                exists(m_parMap, q) = exists(m_parMap, regex_parameter(parFile[j]).implname)
    /\ (pc = "getline" \/ err.kind = "syntax") =>
          \A j \in Assignments(lineno) :
             \A q \in CaseVariants(regex_parameter(parFile[j]).implname) :
                /\ exists(m_parMap, q)
                /\ j \in LastAssignments(lineno) =>
                      getString(m_parMap, q) = regex_parameter(parFile[j]).value

\* two assignments whose keys differ only in case have been read, and the
\* later one gave the entry its value
C1_Witness ==
    /\ pc = "getline"
    /\ \E i, j \in Assignments(lineno) :
          /\ i < j
          /\ j \in LastAssignments(lineno)
          /\ SameKey(i, j)
          /\ regex_parameter(parFile[i]).implname # regex_parameter(parFile[j]).implname
          /\ regex_parameter(parFile[i]).value # regex_parameter(parFile[j]).value
          /\ HasUpper(regex_parameter(parFile[j]).implname)
          /\ Cardinality(DOMAIN m_parMap) = 1

-----------------------------------------------------------------------------
(* C2 *)

FirstMalformed == CHOOSE j \in MalformedLines : \A i \in MalformedLines : j <= i

\* C2: when a line of a readable parameter file is malformed, parse() reads
\* no line after the first malformed one and runs neither prepareValues nor
\* any resolver stage; it fails with the syntax error carrying that line,
\* the store holds the raw assignments of the lines before it, and the
\* parser is not marked as parsed.
C2_SyntaxErrorAborts ==
    (m_file = "readable" /\ MalformedLines # {}) =>
        /\ ~m_parsed
        /\ pc \in {"open", "getline", "failed"}
        /\ pc \in {"open", "getline"} => ENABLED Next
        /\ lineno <= FirstMalformed
        /\ m_parMap = RawStore(IF lineno = FirstMalformed THEN lineno - 1 ELSE lineno)
        /\ thorn = initThornDefaults
        /\ m_cctkGH = initCctkDefaults(CactusGrid(m_cctkGH.m_cctk_dim))
        /\ m_it_max.indet
        /\ pc = "failed" <=> lineno = FirstMalformed
        /\ pc = "failed" => err = [kind |-> "syntax", text |-> parFile[FirstMalformed]]

\* parse() has failed at a malformed line that an assignment to a new key
\* follows, after an assignment was stored
C2_Witness ==
    /\ pc = "failed"
    /\ err.kind = "syntax"
    /\ m_parMap # EmptyMap
    /\ \E j \in lineno + 1 .. Len(parFile) :
          /\ IsAssignment(parFile[j])
          /\ to_lower_copy(regex_parameter(parFile[j]).implname) \notin DOMAIN m_parMap

-----------------------------------------------------------------------------
(* C3 *)

\* v without its double quotes and without leading and trailing white space
Stripped(v) ==
    LET q  == SelectSeq(v, LAMBDA c : c # "\"")
        ns == {i \in 1..Len(q) : q[i] \notin {" ", "\t"}}
    IN  IF ns = {} THEN <<>>
        ELSE SubSeq(q, CHOOSE i \in ns : \A j \in ns : i <= j,
                       CHOOSE i \in ns : \A j \in ns : j <= i)

Normalized(v) ==
    LET s == Stripped(v)
    IN  IF to_lower_copy(s) \in {str_yes, str_y, str_true, str_t} THEN str_1
        ELSE IF to_lower_copy(s) \in {str_no, str_n, str_false, str_f} THEN str_0
        ELSE s

\* C3: value normalization leaves the keys as they are and maps every
\* value to "1" for yes/y/true/t, to "0" for no/n/false/f (quotes removed,
\* trimmed, ignoring case) and to the quote-stripped trimmed text otherwise.
C3_Normalization ==
    [][pc = "getline" /\ pc' = "proceedCactus" =>
          /\ DOMAIN m_parMap' = DOMAIN m_parMap
          /\ \A k \in DOMAIN m_parMap : m_parMap'[k] = Normalized(m_parMap[k])]_vars

\* normalization has run on a store with a quoted, padded boolean word, a
\* bare boolean word and a value that is neither
C3_Witness ==
    /\ pc = "proceedCactus"
    /\ LET raw == RawStore(Len(parFile))
       IN  \E k1, k2 \in DOMAIN raw :
              /\ m_parMap[k1] \in {str_0, str_1}
              /\ Len(raw[k1]) > 3
              /\ m_parMap[k2] \notin {str_0, str_1, raw[k2]}

-----------------------------------------------------------------------------
(* The keys of the normalized store, read as the claims read them          *)

\* the first white-space delimited word of v (<<>> when v has none)
FirstWord(v) ==
    LET ns == {i \in 1..Len(v) : v[i] \notin {" ", "\t"}}
    IN  IF ns = {} THEN <<>>
        ELSE LET a == CHOOSE i \in ns : \A j \in ns : i <= j
                 b == CHOOSE i \in ns : (a..i) \subseteq ns /\ (i + 1) \notin ns
             IN  SubSeq(v, a, b)

\* the store parse() resolves from when every line of the file is read
FinalStore ==
    LET raw == RawStore(Len(parFile))
    IN  [k \in DOMAIN raw |-> Normalized(raw[k])]

HasKey(key) == key \in DOMAIN m_parMap

IntKey(key, default) ==
    IF HasKey(key) THEN fromString_int(m_parMap[key]).val ELSE default

RealKey(key, default) ==
    IF HasKey(key) THEN fromString_real(m_parMap[key]).val ELSE default

BoolKey(key, default) ==
    IF HasKey(key) THEN fromString_bool(m_parMap[key]).val ELSE default

\* key names name (ignoring case), or is absent and name is the default
KeyNames(key, name, isDefault) ==
    IF HasKey(key) THEN to_lower_copy(FirstWord(m_parMap[key])) = name ELSE isDefault

AfterPUGH == pc \in {"proceedCartGrid", "setupSymmetry", "proceedTime", "setupThorn", "done"}

gsh(i) == m_cctkGH.m_cctk_gsh[i]
lsh(i) == m_cctkGH.m_cctk_lsh[i]
origin(i) == m_cctkGH.m_cctk_origin_space[i]
spacing(i) == m_cctkGH.m_cctk_delta_space[i]
dimension == m_cctkGH.m_cctk_dim

-----------------------------------------------------------------------------
(* C4 *)

driver_local_n == <<driver_local_nx, driver_local_ny, driver_local_nz>>

\* the local size the keys give axis i: the uniform key when it is
\* positive, else the key of the axis (-1 without one)
LocalSize(i) ==
    IF IntKey(driver_local_nsize, -1) > 0 THEN IntKey(driver_local_nsize, -1)
    ELSE IF i <= 2 THEN IntKey(driver_local_n[i + 1], -1)
    ELSE -1

\* C4: once the decomposition stage has run with positive local sizes on
\* all three axes, the global and the local size of every axis below the
\* dimension equal the local value of that axis.
C4_LocalSizes ==
    (AfterPUGH /\ \A i \in 0..2 : LocalSize(i) > 0) =>
        \A i \in Axes(dimension) :
            LocalSize(i) > 0 => gsh(i) = LocalSize(i) /\ lsh(i) = LocalSize(i)

\* C4 for the axes the working arrays have entries for
C4_LocalSizesFirstThree ==
    (AfterPUGH /\ \A i \in 0..2 : LocalSize(i) > 0) =>
        \A i \in Axes(dimension) \cap 0..2 :
            gsh(i) = LocalSize(i) /\ lsh(i) = LocalSize(i)

C4_Witness ==
    /\ pc = "proceedCartGrid"
    /\ dimension = 3
    /\ HasKey(driver_local_nsize) /\ HasKey(driver_global_nsize)
    /\ \A i \in 0..2 : gsh(i) = 5 /\ lsh(i) = 5

-----------------------------------------------------------------------------
(* C5 *)

GridTypes == {str_box, str_byrange, str_byspacing}
Domains == {str_full, str_bitant, str_quadrant, str_octant}
TimeMethods == {str_given, str_courant_static, str_courant_speed, str_courant_time}

\* the three keyword keys in the order parse() resolves them
KeywordKeys ==
    <<[key |-> grid_type, names |-> GridTypes, kind |-> "gridtype",
       never |-> {"setupSymmetry", "proceedTime", "setupThorn", "done"}],
      [key |-> grid_domain, names |-> Domains, kind |-> "domain",
       never |-> {"proceedTime", "setupThorn", "done"}],
      [key |-> time_timestep_method, names |-> TimeMethods, kind |-> "timemethod",
       never |-> {"setupThorn", "done"}]>>

UnknownValue(store, n) ==
    /\ KeywordKeys[n].key \in DOMAIN store
    /\ to_lower_copy(store[KeywordKeys[n].key]) \notin KeywordKeys[n].names

UnknownWord(store, n) ==
    /\ KeywordKeys[n].key \in DOMAIN store
    /\ to_lower_copy(FirstWord(store[KeywordKeys[n].key])) \notin KeywordKeys[n].names

\* C5 as stated: a keyword value that is none of the recognized names makes
\* parse() fail with the configuration error naming that value, whatever
\* the other keys are; the parser is not marked as parsed.
C5_UnknownValueFails ==
    m_file = "readable" =>
        LET store == FinalStore
        IN  \A n \in 1..3 :
                UnknownValue(store, n) =>
                    /\ ~m_parsed
                    /\ pc \notin KeywordKeys[n].never
                    /\ pc = "failed" =>
                          err = [kind |-> KeywordKeys[n].kind,
                                 text |-> store[KeywordKeys[n].key]]

\* C5, amended: a keyword value whose first word is none of the recognized
\* names makes parse() fail before the stage after its resolution, whatever
\* the other keys are, and the parser is not marked as parsed; the error is
\* the configuration error naming the first word of the first such keyword
\* in resolution order, unless a malformed line or a value that does not
\* convert (an empty keyword value is one) has ended parse() before.
C5_UnknownWordFails ==
    m_file = "readable" =>
        LET store == FinalStore
        IN  \A n \in 1..3 :
                UnknownWord(store, n) =>
                    /\ ~m_parsed
                    /\ pc \notin KeywordKeys[n].never
                    /\ (pc = "failed" /\ \A m \in 1..(n - 1) : ~UnknownWord(store, m)) =>
                          \/ err.kind = "syntax" /\ MalformedLines # {}
                          \/ err.kind = "convert" /\ \E k \in DOMAIN store : err.text = store[k]
                          \/ err = [kind |-> KeywordKeys[n].kind,
                                    text |-> FirstWord(store[KeywordKeys[n].key])]

\* parse() has failed on an unknown domain, with a known grid type and an
\* unknown time-step method in the file
C5_Witness ==
    /\ pc = "failed"
    /\ err.kind = "domain"
    /\ LET store == FinalStore
       IN  ~UnknownWord(store, 1) /\ UnknownWord(store, 2) /\ UnknownWord(store, 3)

-----------------------------------------------------------------------------
(* C6 *)

time_timestep == <<"t","i","m","e",":",":","t","i","m","e","s","t","e","p">>  \* 'time::timestep'

\* C6: after a successful parse() with time-step method given and the
\* explicit time-step key present with value v, delta-time is v.
C6_GivenTimeStep ==
    \A k \in {time_timestep, timestep} :
        (pc = "done" /\ KeyNames(time_timestep_method, str_given, FALSE) /\ HasKey(k)) =>
            m_cctkGH.m_cctk_delta_time = RealKey(k, FromInt(0))

\* the value the given branch leaves: the local delta_time, 0.0
C6_GivenLeavesZero ==
    (pc = "done" /\ KeyNames(time_timestep_method, str_given, FALSE)) =>
        m_cctkGH.m_cctk_delta_time = FromInt(0)

-----------------------------------------------------------------------------
(* C7 *)

\* a <= b as numbers
RLe(a, b) == ~IsNaN(a) /\ ~IsNaN(b) /\ ~RLt(b, a)

\* delta-time is dtfac times a spacing that no spacing of an axis below
\* the dimension is smaller than
DtfacTimesMinimum ==
    \E j \in Axes(dimension) :
        /\ \A i \in Axes(dimension) : RLe(spacing(j), spacing(i))
        /\ m_cctkGH.m_cctk_delta_time = RMul(RealKey(time_dtfac, FromInt(0)), spacing(j))

CourantStatic ==
    /\ pc = "done"
    /\ KeyNames(time_timestep_method, str_courant_static, TRUE)
    /\ HasKey(time_dtfac)

\* C7 as stated: after a successful parse() with method courant_static (or
\* no method key), delta-time is the value of the dtfac key times the
\* minimum of the spacings of the axes below the dimension.
C7_CourantStatic == CourantStatic => DtfacTimesMinimum

\* C7, amended: the same, when no spacing of an axis below the dimension
\* is NaN.
C7_CourantStaticNumbers ==
    (CourantStatic /\ \A i \in Axes(dimension) : ~IsNaN(spacing(i))) => DtfacTimesMinimum

\* parse() has succeeded with a dtfac key and the smallest spacing on an
\* axis other than axis 0
C7_Witness ==
    /\ CourantStatic
    /\ RLt(spacing(1), spacing(0))
    /\ RLt(FromInt(0), m_cctkGH.m_cctk_delta_time)
    /\ m_cctkGH.m_cctk_delta_time = RMul(RealKey(time_dtfac, FromInt(0)), spacing(1))

-----------------------------------------------------------------------------
(* C8 *)

grid_avoid_origin_n == <<grid_avoid_originx, grid_avoid_originy, grid_avoid_originz>>

\* avoid-origin of axis i as the keys give it
AvoidOrigin(i) ==
    IF ~BoolKey(grid_avoid_origin, TRUE) THEN FALSE
    ELSE BoolKey(grid_avoid_origin_n[i + 1], TRUE)

\* the axes the domain has the origin adjusted on
Adjusted ==
    IF KeyNames(grid_domain, str_bitant, FALSE) THEN {2}
    ELSE IF KeyNames(grid_domain, str_quadrant, FALSE) THEN {0, 1}
    ELSE IF KeyNames(grid_domain, str_octant, FALSE) THEN {0, 1, 2}
    ELSE {}

\* C8: a symmetry adjustment that returns leaves every spacing as it was
\* and sets the origin of exactly the axes below the dimension that the
\* domain names (none for full, 2 for bitant, 0 and 1 for quadrant, 0, 1
\* and 2 for octant): to -spacing/2 where avoid-origin holds for the axis,
\* to -spacing where it does not; every other origin stays.
C8_Symmetry ==
    [][(pc = "setupSymmetry" /\ pc' = "proceedTime") =>
          /\ KeyNames(grid_domain, str_full, TRUE) \/ Adjusted # {}
          /\ \A i \in Axes(dimension) :
                /\ m_cctkGH'.m_cctk_delta_space[i] = spacing(i)
                /\ m_cctkGH'.m_cctk_origin_space[i] =
                      IF i \notin Adjusted THEN origin(i)
                      ELSE IF AvoidOrigin(i) THEN RDiv(RNeg(spacing(i)), FromInt(2))
                      ELSE RNeg(spacing(i))]_vars

\* the adjustment has run for quadrant in three dimensions, with
\* avoid-origin on axis 0 and not on axis 1, over a box
C8_Witness ==
    /\ pc = "proceedTime"
    /\ dimension = 3
    /\ Adjusted = {0, 1}
    /\ AvoidOrigin(0) /\ ~AvoidOrigin(1)
    /\ origin(0) = Frac(-1, 20)
    /\ origin(1) = Frac(-1, 10)
    /\ origin(2) = Frac(-1, 2)

-----------------------------------------------------------------------------
(* C9 *)

BoxFull ==
    /\ pc = "done"
    /\ KeyNames(grid_type, str_box, TRUE)
    /\ KeyNames(grid_domain, str_full, TRUE)

-----------------------------------------------------------------------------
(* C10 *)

grid_min_n == <<grid_xmin, grid_ymin, grid_zmin>>
grid_max_n == <<grid_xmax, grid_ymax, grid_zmax>>

\* min and max of axis i as the keys give them
ResolvedMin(i) ==
    IF HasKey(grid_xyzmin) THEN RealKey(grid_xyzmin, FromInt(-1))
    ELSE IF i <= 2 THEN RealKey(grid_min_n[i + 1], FromInt(-1))
    ELSE FromInt(-1)

ResolvedMax(i) ==
    IF HasKey(grid_xyzmax) THEN RealKey(grid_xyzmax, FromInt(1))
    ELSE IF i <= 2 THEN RealKey(grid_max_n[i + 1], FromInt(1))
    ELSE FromInt(1)

ByRangeDone ==
    /\ pc = "setupSymmetry"
    /\ KeyNames(grid_type, str_byrange, FALSE)

\* C10: when the geometry branch for byrange has run, every axis below the
\* dimension has its origin at the resolved min (the uniform key if
\* present, else the key of the axis, else -1) and spacing times
\* (global size - 1) equal to resolved max (likewise, else +1) minus
\* resolved min.
C10_ByRange ==
    ByRangeDone =>
        \A i \in Axes(dimension) :
            /\ origin(i) = ResolvedMin(i)
            /\ RMul(spacing(i), FromInt(gsh(i) - 1)) = RSub(ResolvedMax(i), ResolvedMin(i))

\* C10 for the axes the working arrays have entries for, uniform keys
\* whose value is not -424242, and global sizes other than 1
C10_ByRangeFirstThree ==
    (ByRangeDone /\ RealKey(grid_xyzmin, FromInt(0)) # FromInt(Sentinel)
                 /\ RealKey(grid_xyzmax, FromInt(0)) # FromInt(Sentinel)) =>
        \A i \in Axes(dimension) \cap 0..2 :
            /\ origin(i) = ResolvedMin(i)
            /\ gsh(i) # 1 =>
                  RMul(spacing(i), FromInt(gsh(i) - 1)) = RSub(ResolvedMax(i), ResolvedMin(i))

C10_Witness ==
    /\ ByRangeDone
    /\ HasKey(grid_xyzmin) /\ HasKey(grid_xmin)
    /\ \A i \in Axes(dimension) \cap 0..2 : origin(i) = FromInt(-2)

-----------------------------------------------------------------------------
(* C11 *)

grid_d_n == <<grid_dx, grid_dy, grid_dz>>

\* the spacing of axis i as the keys give it
ResolvedSpacing(i) ==
    IF HasKey(grid_dxyz) THEN RealKey(grid_dxyz, Frac(3, 10))
    ELSE IF i <= 2 THEN RealKey(grid_d_n[i + 1], Frac(3, 10))
    ELSE Frac(3, 10)

\* avoid-origin of axis i as the keys give it, as 0 or 1
ResolvedAvoid(i) ==
    IF (IF i <= 2 THEN AvoidOrigin(i) ELSE BoolKey(grid_avoid_origin, TRUE)) THEN 1 ELSE 0

CenteredOrigin(i) ==
    RMul(RMul(Frac(-1, 2), FromInt(gsh(i) - 1 - ResolvedAvoid(i) * (gsh(i) % 2))), spacing(i))

BySpacingFull ==
    /\ pc = "done"
    /\ KeyNames(grid_type, str_byspacing, FALSE)
    /\ KeyNames(grid_domain, str_full, TRUE)

\* C11: after a successful parse() with grid type byspacing and domain
\* full, every axis below the dimension has as spacing the value of the
\* uniform spacing key if that key is present, else the value of the key
\* of the axis, else 0.3, and as origin
\* -0.5 * (global size - 1 - avoid-origin * (global size mod 2)) * spacing.
C11_BySpacing ==
    BySpacingFull =>
        \A i \in Axes(dimension) :
            /\ spacing(i) = ResolvedSpacing(i)
            /\ origin(i) = CenteredOrigin(i)

\* C11 for the axes the working arrays have entries for and a uniform
\* spacing key whose value is above 0
C11_BySpacingFirstThree ==
    (BySpacingFull /\ (HasKey(grid_dxyz) => RLt(FromInt(0), RealKey(grid_dxyz, FromInt(0))))) =>
        \A i \in Axes(dimension) \cap 0..2 :
            /\ spacing(i) = ResolvedSpacing(i)
            /\ origin(i) = CenteredOrigin(i)

C11_Witness ==
    /\ BySpacingFull
    /\ HasKey(grid_dxyz) /\ HasKey(grid_dx)
    /\ \A i \in Axes(dimension) \cap 0..2 : spacing(i) = Frac(1, 10)

-----------------------------------------------------------------------------
(* C12 *)

\* a well-formed assignment to a key that no stage looks up
Unrecognized(line) ==
    IsAssignment(line) /\ to_lower_copy(regex_parameter(line).implname) \notin GetNames

\* the file without its assignments to unrecognized keys
RecognizedOnly(file) == SelectSeq(file, LAMBDA line : ~Unrecognized(line))

RECURSIVE ReadLines(_, _)
ReadLines(file, map) ==
    IF file = <<>> THEN map
    ELSE ReadLines(Tail(file), parseLineStore(map, Head(file)))

\* what the reads beyond the working arrays can yield in one parse()
OobChoices ==
    {[gsh |-> v, lsh |-> v, min |-> lo, min2 |-> lo, max |-> hi, d |-> hi, avoid |-> a] :
        v \in Oob(OobInts), lo \in Oob(OobReals), hi \in Oob(OobReals), a \in Oob(BOOLEAN)}

Failure == [fail |-> TRUE]

\* the outcome of parse() on a new ParParser for the lines of file: failure,
\* or the grid and the maximum iteration count
ParseOutcome(file, oob) ==
    LET itmax0 == [indet |-> TRUE, hi |-> 0, lo |-> 0]
        gh0    == initCctkDefaults(CactusGrid(dimension))
        time(c, r) ==
            IF r.fail THEN Failure
            ELSE [fail |-> FALSE, gh |-> r.gh, it_max |-> c.m_it_max]
        symmetry(c, map, r) ==
            IF r.fail THEN Failure ELSE time(c, proceedTime(map, r.thorn, r.gh))
        cartgrid(c, map, r) ==
            IF r.fail THEN Failure ELSE symmetry(c, map, setupSymmetry(r.thorn, r.gh))
        pugh(c, map, r) ==
            IF r.fail THEN Failure
            ELSE cartgrid(c, map, proceedCartGrid(map, r.thorn, r.gh, oob))
        cactus(map, c) ==
            IF c.fail THEN Failure
            ELSE pugh(c, map, proceedPUGH(map, initThornDefaults, gh0, oob))
        stages(map) == cactus(map, proceedCactus(map, itmax0))
    IN  IF \E j \in 1..Len(file) : LineKind(file[j]) = "error" THEN Failure
        ELSE stages(prepareValuesStore(ReadLines(file, EmptyMap)))

\* the outcome the state shows
Outcome ==
    IF pc = "failed" THEN Failure
    ELSE [fail |-> FALSE, gh |-> m_cctkGH, it_max |-> m_it_max]

\* C12: a parameter file and the same file without its well-formed
\* assignments to unrecognized keys give the same outcome of parse(): both
\* fail or both succeed with the same grid and the same maximum iteration
\* count (for every value the reads beyond the working arrays can yield);
\* and that outcome is the one the parser has reached.
C12_UnrecognizedKeysIgnored ==
    (pc \in {"done", "failed"} /\ m_file = "readable") =>
        /\ \A oob \in OobChoices :
              ParseOutcome(parFile, oob) = ParseOutcome(RecognizedOnly(parFile), oob)
        /\ \E oob \in OobChoices : Outcome = ParseOutcome(RecognizedOnly(parFile), oob)

C12_Witness ==
    /\ pc = "done"
    /\ \E j \in 1..Len(parFile) : Unrecognized(parFile[j])
    /\ \E j \in 1..Len(parFile) : IsAssignment(parFile[j]) /\ ~Unrecognized(parFile[j])
    /\ ~m_it_max.indet

-----------------------------------------------------------------------------
(* C13 *)

\* the element i of the array name holds in h what it holds in g
SameElement(g, h, name, i) ==
    /\ i \in DOMAIN g[Member[name]] /\ i \in DOMAIN h[Member[name]]
    /\ g[Member[name]][i] = h[Member[name]][i]
    /\ (<<name, i>> \in g.indet) <=> (<<name, i>> \in h.indet)

\* every per-axis array holds in h at the indices below k what it holds in g
SameBelow(g, h, k) ==
    \A name \in AxisFields : \A i \in 0 .. k - 1 : SameElement(g, h, name, i)

\* iteration, time, delta-time and identity are in h what they are in g
SameScalars(g, h) ==
    /\ g.m_identity = h.m_identity
    /\ \A name \in DOMAIN ScalarMember :
          /\ g[ScalarMember[name]] = h[ScalarMember[name]]
          /\ (<<name, 0>> \in g.indet) <=> (<<name, 0>> \in h.indet)

\* the step is the operation op
Does(op) == ops' = ops + 1 /\ last'.op = op

\* what cctk_dim(n) is to leave of the grid g in the grid h
DimensionSet(g, h, n) ==
    /\ h.m_cctk_dim = n
    /\ SameBelow(g, h, IF n > g.m_cctk_dim THEN g.m_cctk_dim ELSE n)
    /\ SameScalars(g, h)

\* C13: a call cctk_dim(n) on a grid of dimension d leaves the dimension n
\* and, in every per-axis array, the values at the indices below d (n > d)
\* or below n (n <= d) as they were, and leaves iteration, time, delta-time
\* and identity as they were; in every sequence of such calls.
C13_SetDimension ==
    [][Does("dim") => DimensionSet(grid[last'.target], grid'[last'.target], last'.arg)]_vars

\* C13 for the calls that return
C13_SetDimensionReturned ==
    [][(Does("dim") /\ fault' = "none") =>
          DimensionSet(grid[last'.target], grid'[last'.target], last'.arg)]_vars

\* a grid whose dimension has grown, with a value written before
C13_Witness ==
    /\ ops = MaxOps /\ fault = "none"
    /\ last.op = "dim" /\ last.copies # <<>>
    /\ grid[last.target].m_cctk_dim = last.arg
    /\ grid[last.target].m_cctk_gsh[0] \in GridValues

-----------------------------------------------------------------------------
(* C14 *)

\* the grid h has the dimension, the scalars and, below the dimension, the
\* values of the grid g
SameGrid(g, h) ==
    /\ h # NoGrid
    /\ h.m_cctk_dim = g.m_cctk_dim
    /\ SameScalars(g, h)
    /\ SameBelow(g, h, g.m_cctk_dim)
    /\ \A i \in 0 .. 2 * g.m_cctk_dim - 1 : SameElement(g, h, "cctk_bbox", i)

\* the objects the step changes
Changed == {n \in Names : grid'[n] # grid[n]}

\* what an assignment or copy construction is to leave
Copied ==
    /\ SameGrid(grid[last'.source], grid'[last'.target])
    /\ last'.target = last'.source => grid' = grid

\* C14: after b = a and after the copy construction of b from a, b has the
\* dimension, the scalar fields and, at every index below the dimension,
\* the values of a; an assignment of a grid to itself leaves it as it is;
\* and every operation (assignment, copy, element write, uniform setter,
\* change of dimension) changes no value of an object other than the one
\* it is applied to.
C14_CopyIndependent ==
    [][/\ (Does("assign") \/ Does("copy")) => Copied
       /\ ops' = ops + 1 => Changed \subseteq {last'.target}]_vars

\* C14 for the assignments and copy constructions that return
C14_CopyIndependentReturned ==
    [][/\ ((Does("assign") \/ Does("copy")) /\ fault' = "none") => Copied
       /\ ops' = ops + 1 => Changed \subseteq {last'.target}]_vars

\* b was copied from a and differs from it after a later write to one of them
C14_Witness ==
    /\ ops = MaxOps /\ fault = "none"
    /\ last.op \in {"write", "uniform", "dim"}
    /\ grid["b"] # NoGrid
    /\ ~SameGrid(grid["a"], grid["b"])
    /\ \E i \in 0..1 : grid["a"].m_cctk_gsh[i] \in GridValues /\ grid["b"].m_cctk_gsh[i] \in GridValues

-----------------------------------------------------------------------------
(* C19 *)

\* C19: every run of copyData (in an assignment, a copy construction and a
\* growing change of dimension) reads and writes boundary flags only at the
\* indices 0 .. 2 * dimension - 1, which lie within the flags allocated for
\* the source and for the destination.
C19_BoundaryFlagsInBounds ==
    \A k \in 1..Len(last.copies) :
        \A i \in bboxIndices(last.copies[k].dim) :
            /\ i <= 2 * last.copies[k].dim - 1
            /\ i < last.copies[k].src
            /\ i < last.copies[k].dst

\* the flags below 2 * dimension are within the allocations: the arrays of
\* both grids hold at least 2 * dimension flags in every run of copyData
C19_AllocatedForDimension ==
    \A k \in 1..Len(last.copies) :
        /\ 2 * last.copies[k].dim <= last.copies[k].src
        /\ 2 * last.copies[k].dim <= last.copies[k].dst

\* an assignment between two grids of dimension 3 has run copyData
C19_Witness ==
    /\ last.op = "assign" /\ Len(last.copies) = 1
    /\ last.copies[1] = [dim |-> 3, src |-> 6, dst |-> 6]

-----------------------------------------------------------------------------
(* C15 *)

\* the steps of one pass of parse(), each stage after its predecessor, and
\* the exits by an exception
Pipeline ==
    {<<"open", "getline">>, <<"getline", "proceedCactus">>,
     <<"proceedCactus", "proceedPUGH">>, <<"proceedPUGH", "proceedCartGrid">>,
     <<"proceedCartGrid", "setupSymmetry">>, <<"setupSymmetry", "proceedTime">>,
     <<"proceedTime", "setupThorn">>, <<"setupThorn", "done">>}
    \cup ({"open", "getline", "proceedCactus", "proceedPUGH", "proceedCartGrid",
           "setupSymmetry", "proceedTime"} \X {"failed"})

\* the stages run in the fixed order, each once in a pass; the values are
\* normalized in the one step from reading to the first stage, and lines
\* are read only before it
InOrder ==
    /\ pc' # pc => (<<pc, pc'>> \in Pipeline \/ (pc \in {"done", "failed"} /\ pc' = "open"))
    /\ m_parMap' # m_parMap => pc = "getline"
    /\ (m_cctkGH' # m_cctkGH \/ thorn' # thorn) =>
          pc \in {"proceedPUGH", "proceedCartGrid", "setupSymmetry", "proceedTime"}
    /\ m_parsed' # m_parsed => (pc = "setupThorn" /\ pc' = "done" /\ m_parsed')

\* C15: getCctkGH() and itMax() succeed only when the parse() call before
\* them has run every step in order and to completion; before any parse()
\* and after a parse() that failed they throw the logic error; within a
\* pass the stages run in the fixed order, none twice.
C15_AccessorsAfterParse ==
    /\ [](caller.call # "none" => (~caller.threw => caller.at = "done"))
    /\ [][InOrder]_vars

\* C15 with "some parse() call before them" for "the parse() call before
\* them": the accessors succeed exactly when m_parsed is set, which a
\* completed pass sets and nothing resets
C15_AccessorsAfterAnyParse ==
    /\ [](caller.call # "none" => (~caller.threw => (caller.held \/ caller.call = "itMax")))
    /\ [][(caller' # caller) => (caller'.threw <=> ~m_parsed)]_vars
    /\ [][InOrder]_vars

\* an accessor has failed before parse() and one has succeeded after it
C15_Witness ==
    /\ caller.n = 2 /\ caller.call = "getCctkGH" /\ ~caller.threw /\ caller.at = "done"
    /\ passes = 1

-----------------------------------------------------------------------------
(* C16 *)

\* the step is a call of getCctkGH() that returns the pointer m_cctkGH
ReturnsGrid == caller'.n = caller.n + 1 /\ caller'.gh = "m_cctkGH"

\* C16: once the caller has obtained the grid from getCctkGH(), no later
\* operation on the parser returns that object again or modifies it: a
\* second getCctkGH() does not return it and a second parse() writes
\* nothing into it.
C16_GridHandedOver ==
    [][caller.held => (~ReturnsGrid /\ m_cctkGH' = m_cctkGH)]_vars

\* the part of C16 about getCctkGH()
C16_NotReturnedAgain == [][caller.held => ~ReturnsGrid]_vars

\* the part of C16 about parse()
C16_NotModified == [][caller.held => m_cctkGH' = m_cctkGH]_vars

\* the caller holds the grid and a second parse() has returned
C16_Witness ==
    /\ caller.held
    /\ passes = 2 /\ pc = "done"

-----------------------------------------------------------------------------
(* C17 *)

driver_global_n == <<driver_global_nx, driver_global_ny, driver_global_nz>>

\* the size of axis i if the key of the axis, when present, went before
\* the uniform key
AxisFirst(axisKeys, uniformKey, i) ==
    IF HasKey(axisKeys[i + 1]) THEN IntKey(axisKeys[i + 1], -1) ELSE IntKey(uniformKey, -1)

UniformLocal == IntKey(driver_local_nsize, -1) > 0
UniformGlobal == IntKey(driver_global_nsize, -1) > 0

\* the local keys do not give all three axes a positive size, so the
\* global keys are the ones resolved
GlobalResolved == ~UniformLocal /\ ~(\A i \in 0..2 : IntKey(driver_local_n[i + 1], -1) > 0)

\* C17: once the decomposition stage has run with a positive uniform local
\* size key, an axis with a local key of its own has that key's value as
\* its resolved size and every other axis has the uniform value; and in the
\* same way for the global keys when the global sizes are the ones resolved.
C17_AxisSpecificOverrides ==
    /\ (AfterPUGH /\ UniformLocal) =>
          \A i \in Axes(dimension) \cap 0..2 :
              gsh(i) = AxisFirst(driver_local_n, driver_local_nsize, i)
    /\ (AfterPUGH /\ GlobalResolved /\ UniformGlobal) =>
          \A i \in Axes(dimension) \cap 0..2 :
              gsh(i) = AxisFirst(driver_global_n, driver_global_nsize, i)

\* C17 as the code has it: a positive uniform size is the resolved size of
\* each of the first three axes, whether or not the axis has a key of its
\* own; the global one when the local keys do not resolve the sizes
C17_UniformOverrides ==
    /\ (AfterPUGH /\ UniformLocal) =>
          \A i \in Axes(dimension) \cap 0..2 :
              /\ gsh(i) = IntKey(driver_local_nsize, -1)
              /\ lsh(i) = IntKey(driver_local_nsize, -1)
    /\ (AfterPUGH /\ GlobalResolved /\ UniformGlobal) =>
          \A i \in Axes(dimension) \cap 0..2 :
              /\ gsh(i) = IntKey(driver_global_nsize, -1)
              /\ lsh(i) = IntKey(driver_global_nsize, -1)

C17_Witness ==
    /\ pc = "done"
    /\ HasKey(driver_local_nsize) /\ HasKey(driver_local_nx)
    /\ IntKey(driver_local_nx, -1) = 7
    /\ \A i \in Axes(dimension) \cap 0..2 : gsh(i) = 5 /\ lsh(i) = 5

-----------------------------------------------------------------------------
(* C18 *)

time_courant_speed == <<"t","i","m","e",":",":","c","o","u","r","a","n","t","_","s","p","e","e","d">>  \* 'time::courant_speed'
time_courant_min_time == <<"t","i","m","e",":",":","c","o","u","r","a","n","t","_","m","i","n","_","t","i","m","e">>  \* 'time::courant_min_time'

CourantSpeed ==
    /\ pc = "done"
    /\ KeyNames(time_timestep_method, str_courant_speed, FALSE)
    /\ HasKey(time_courant_speed)

CourantTime ==
    /\ pc = "done"
    /\ KeyNames(time_timestep_method, str_courant_time, FALSE)
    /\ HasKey(time_courant_min_time)

\* courant_fac as the keys give it
CourantFac == RealKey(time_courant_fac, Frac(9, 10))

\* C18: after a successful parse() with method courant_speed and the wave
\* speed key present, the working wave speed is the value of that key and
\* delta-time is courant_fac * min(spacing) / that value / sqrt(dimension);
\* with method courant_time and the minimum-time key present, the working
\* minimum time is the value of that key and delta-time is
\* courant_fac * that value / sqrt(dimension).
C18_CourantKeysUsed ==
    /\ CourantSpeed =>
          /\ thorn.m_courant_speed = RealKey(time_courant_speed, FromInt(0))
          /\ m_cctkGH.m_cctk_delta_time =
                RDiv(RDiv(RMul(CourantFac, min_cctk_delta_space(m_cctkGH)),
                          RealKey(time_courant_speed, FromInt(0))),
                     sqrt(dimension))
    /\ CourantTime =>
          /\ thorn.m_courant_min_time = RealKey(time_courant_min_time, FromInt(0))
          /\ m_cctkGH.m_cctk_delta_time =
                RDiv(RMul(CourantFac, RealKey(time_courant_min_time, FromInt(0))),
                     sqrt(dimension))

\* what the code leaves: the two working values are the 0.0 of the
\* defaults whatever the keys hold
C18_CourantKeysNotRead ==
    /\ thorn.m_courant_speed = FromInt(0)
    /\ thorn.m_courant_min_time = FromInt(0)

C18_Witness ==
    /\ CourantSpeed
    /\ RealKey(time_courant_speed, FromInt(0)) = FromInt(2)
    /\ thorn.m_courant_speed = FromInt(0)
    /\ m_cctkGH.m_cctk_delta_time.d = 0

-----------------------------------------------------------------------------
(* C20 *)

\* the indices of "for (i = 0; i < dim; ++i)"
AxisLoop(dim) == Axes(dim)

\* the indices x the loop of setupSymmetry gets past "if (x >= dim) continue"
\* with
SymmetryLoop(w, dim) ==
    LET walked == IF equals(w.m_domain, str_bitant) THEN {2}
                  ELSE IF equals(w.m_domain, str_quadrant) THEN {0, 1}
                  ELSE IF equals(w.m_domain, str_octant) THEN {0, 1, 2}
                  ELSE {}
    IN  {x \in walked : x < dim}

\* the places <<array, index>> of the working state that the stage that has
\* just returned has indexed: those its GETs name and those of its loop
Indexed ==
    LET local == \A i \in 0..2 : thorn.m_local[i] > 0
    IN  CASE pc = "proceedCartGrid" ->
                ({"m_global", "m_local"} \X (0..2))
                \cup ({IF local THEN "m_local" ELSE "m_global"} \X AxisLoop(dimension))
          [] pc = "setupSymmetry" ->
                ({"m_avoidOrigin"} \X (0..2))
                \cup (IF equals(thorn.m_gridType, str_byrange)
                      THEN {"m_min", "m_max"} \X ((0..2) \cup AxisLoop(dimension))
                      ELSE IF equals(thorn.m_gridType, str_byspacing)
                      THEN {"m_d", "m_avoidOrigin"} \X ((0..2) \cup AxisLoop(dimension))
                      ELSE {})
          [] pc = "proceedTime" ->
                {"m_avoidOrigin"} \X SymmetryLoop(thorn, dimension)
          [] OTHER -> {}

InBounds(places) == \A p \in places : p[2] \in DOMAIN thorn[p[1]]

\* C20: for each of the dimensions 2, 3 and 4, the decomposition, geometry
\* and symmetry stages index the per-axis arrays of the working state, of
\* three entries each, only at 0, 1 and 2.
C20_WorkingArraysInBounds ==
    /\ \A p \in Indexed : DOMAIN thorn[p[1]] = 0..2
    /\ InBounds(Indexed)

\* C20 for the dimensions 2 and 3 and, for every dimension, the symmetry
\* stage
C20_InBoundsBelowFour ==
    (dimension <= 3 \/ pc = "proceedTime") => InBounds(Indexed)

C20_Witness ==
    /\ dimension = 4
    /\ pc = "proceedCartGrid"
    /\ <<"m_local", 3>> \in Indexed
    /\ gsh(3) = 7 /\ gsh(0) = 5

=============================================================================
